---- MODULE Spec2Model ----
(***************************************************************************)
(* Tanjun command client: the message and interaction dispatch pipelines,  *)
(* the open/close lifecycle and the client callback registry of            *)
(* tanjun/clients.py, and the component execution of                       *)
(* tanjun/components.py, as a state machine.                               *)
(*                                                                         *)
(* Strings are sequences of one-character strings.  One event is in        *)
(* flight at a time; the awaits of the handlers are step boundaries.  A     *)
(* handler that has called a component's execute is suspended in the       *)
(* checks of the component, and then in the command the component calls.   *)
(*                                                                         *)
(* Spec           the dispatch pipelines                                   *)
(* SpecLifecycle  Client.open and Client.close with their callbacks        *)
(* SpecCallbacks  the callback registry and dispatch_client_callback       *)
(* SpecComponent  Component.execute called on its own                      *)
(* SpecListeners  the event listeners of the components                   *)
(* SpecOwnership  components added to two clients, commands to components  *)
(* SpecMidFlight  the registry changed while an event is dispatched        *)
(* SpecHooks      the client's hooks set while an event is dispatched      *)
(* SpecConcurrent two message events dispatched side by side               *)
(* SpecPrefix     the prefix resolution of a message event                 *)
(* SpecLoad       Client.load_modules                                      *)
(* SpecRestart    a client opened and closed again and again               *)
(* SpecAdmin      set_human_only and remove_component called on their own  *)
(* SpecGlobalCommands  Client.set_global_commands, the registry changed    *)
(*                     while it awaits                                     *)
(***************************************************************************)
EXTENDS Integers, Sequences, FiniteSets, TLC

\* ------------------------------------------------------------------ bounds
MaxContentLen == 3
NumComponents == 2
MaxGetterLen == 2

\* ------------------------------------------------------------ value pools
Alphabet == {"!", " ", "p"}
Components == 1..NumComponents
PrefixPool == {<<"!">>, <<" ", "!">>}
CheckPool == {"k1"}
CommandPool == {<<"p">>, <<"p", " ", "p">>}
ErrorMessages == {"bad args", "no perms"}
SlashNames == {<<"p">>, <<"!">>}

\* Markers for Python's None in string-valued slots.
NoContent == <<"None">>
NoPrefix == <<"None">>
NoCommand == <<"None">>

Strings(n) == UNION {[1..k -> Alphabet] : k \in 0..n}
SeqsOver(S, n) == UNION {[1..k -> S] : k \in 0..n}

\* --------------------------------------------------------- str operations
\* str.startswith
StartsWith(s, p) == Len(p) <= Len(s) /\ SubSeq(s, 1, Len(p)) = p

\* s[n:]
Drop(s, n) == IF n >= Len(s) THEN <<>> ELSE SubSeq(s, n + 1, Len(s))

\* str.lstrip()
RECURSIVE LStrip(_)
LStrip(s) == IF s # <<>> /\ Head(s) = " " THEN LStrip(Tail(s)) ELSE s

\* ctx.content.lstrip()[len(prefix):].lstrip()
StripPrefix(content, prefix) == LStrip(Drop(LStrip(content), Len(prefix)))

\* ------------------------------------------------------------------- state
VARIABLES
    prefixes,            \* Client._prefixes
    prefixGetter,        \* Client._prefix_getter is set
    checks,              \* Client._checks
    components,          \* Client._components
    autoDefer,           \* Client._auto_defer_after is not None
    interactionNotFound, \* Client._interaction_not_found is not None
    started,             \* Component.started, per component
    commands,            \* Component._commands, per component
    compChecks,          \* Component._checks, per component
    msg,                 \* the message event in flight and what it has done
    ia,                  \* the interaction in flight and what it has done
    events,              \* Client._events is set (an event manager was given)
    server,              \* Client._server is set (an interaction server was given)
    isAlive,             \* Client._is_alive
    accepts,             \* Client._accepts
    grabMentionPrefix,   \* Client._grab_mention_prefix
    subscriptions,       \* the event manager's listeners of this client, per event type
    serverListener,      \* the interaction server's CommandInteraction listener
    clientCallbacks,     \* Client._client_callbacks
    call,                \* the open/close/dispatch call in flight and what it has done
    gather,              \* the asyncio.gather the call in flight awaits
    startedTask,         \* the task open() created for the STARTED callbacks
    execution,           \* the last Component.execute call made on its own
    boundClient,         \* Component._client, per component (0 is None)
    components2,         \* Client._components of a second Client
    listeners,           \* Component._listeners, per component
    dispatcher,          \* the subscriptions of each client's event dispatcher
    boundComponent,      \* Command._component, per command (0 is None)
    clientHooks,         \* which of Client._hooks, _message_hooks, _slash_hooks are set
    pipes,               \* message events handled side by side, with their inputs
    load,                \* the last Client.load_modules call and what it did
    history,             \* the lifecycle calls that have returned or raised
    admin,               \* the last administrative call observed on its own
    cachedApplicationId  \* Client._cached_application_id is set

lifeVars == <<events, server, isAlive, accepts, grabMentionPrefix,
              subscriptions, serverListener, clientCallbacks, call, gather,
              startedTask>>

\* The records of calls that are made on their own.
miscVars == <<load, history, admin, cachedApplicationId>>

\* Who is bound to whom, and the components' event listeners.
bindVars == <<boundClient, components2, listeners, dispatcher, boundComponent>>

\* What the dispatch pipelines and the component calls leave alone.
otherVars == <<lifeVars, execution, bindVars, clientHooks, pipes, miscVars>>

\* The client's hooks and the message events handled side by side.
auxVars == <<clientHooks, pipes, miscVars>>

vars == <<prefixes, prefixGetter, checks, components, autoDefer,
          interactionNotFound, started, commands, compChecks, msg, ia,
          lifeVars, execution, bindVars, auxVars>>

clientVars == <<prefixes, prefixGetter, checks, components, autoDefer,
                interactionNotFound>>
componentVars == <<started, commands, compChecks>>

\* ----------------------------------------------------------------- hooks
\* The `hooks` argument of Component.execute: None, or a set of hooks.
NoHooks == [given |-> FALSE, set |-> {}]
HookSets == {NoHooks, [given |-> TRUE, set |-> {}],
             [given |-> TRUE, set |-> {"client"}]}

\* A fresh message context / dispatch record.
MsgIdle ==
    [pc |-> "idle", content |-> NoContent, prefix |-> NoPrefix,
     triggering_name |-> NoCommand, command |-> NoCommand,
     prefixable |-> FALSE, checked |-> FALSE, checkFailed |-> FALSE,
     tried |-> {}, found |-> {}, executed |-> <<>>,
     askedAfterFound |-> FALSE, askedAfterError |-> FALSE,
     exit |-> "none", error |-> "none", responses |-> <<>>, notFound |-> 0,
     hooks |-> NoHooks, used |-> NoHooks, iterSize |-> 0, mutated |-> FALSE,
     yielded |-> 0, current |-> 0, compChecked |-> {}]

\* A fresh interaction context / dispatch record.
IaIdle ==
    [pc |-> "idle", entry |-> "none", content |-> NoContent,
     triggering_name |-> NoCommand, command |-> NoCommand,
     timer |-> "unset", tried |-> {}, found |-> {}, executed |-> <<>>,
     askedAfterFound |-> FALSE, askedAfterError |-> FALSE,
     exit |-> "none", error |-> "none",
     initial |-> <<>>, edits |-> <<>>, resolved |-> 0,
     respondTask |-> "none", dispatchTask |-> "none",
     notFound |-> 0, log |-> <<>>,
     hooks |-> NoHooks, used |-> NoHooks, iterSize |-> 0, mutated |-> FALSE,
     yielded |-> 0, current |-> 0, compChecked |-> {}]

\* ------------------------------------------------------- lifecycle state
\* MessageAcceptsEnum
AcceptsModes == {"ALL", "DM_ONLY", "GUILD_ONLY", "NONE"}

\* The event types the client subscribes listeners for.
EventTypes == {"MessageCreateEvent", "DMMessageCreateEvent",
               "GuildMessageCreateEvent", "InteractionCreateEvent"}

\* MessageAcceptsEnum.get_event_type ("None" where the mode disables
\* message create events).
GetEventType(mode) ==
    CASE mode = "ALL" -> "MessageCreateEvent"
      [] mode = "DM_ONLY" -> "DMMessageCreateEvent"
      [] mode = "GUILD_ONLY" -> "GuildMessageCreateEvent"
      [] OTHER -> "None"

\* ClientCallbackNames
STARTING == <<"s", "t", "a", "r", "t", "i", "n", "g">>
STARTED == <<"s", "t", "a", "r", "t", "e", "d">>
CLOSING == <<"c", "l", "o", "s", "i", "n", "g">>
CLOSED == <<"c", "l", "o", "s", "e", "d">>
LifecycleNames == {STARTING, STARTED, CLOSING, CLOSED}

\* Event names the application registers callbacks under, and the names it
\* dispatches, looks up and removes them under: case variants of them.
RegisterNames == {<<"O", "n">>, <<"O", "N">>, <<"u", "p">>}
DispatchNames == {<<"o", "n">>, <<"O", "n">>, <<"U", "p">>}

\* The callbacks callers register.
CallbackPool == {"cb1", "cb2"}

\* The two mention prefixes of the bot's own user.
MentionPrefixes == {<<"<", "@", "7", ">">>, <<"<", "@", "!", "7", ">">>}

\* Backoff(max_retries=4) in Client.open
MaxRetries == 4

\* str.lower
UpperCase == <<"A", "B", "C", "D", "E", "F", "G", "H", "I", "J", "K", "L", "M",
               "N", "O", "P", "Q", "R", "S", "T", "U", "V", "W", "X", "Y", "Z">>
LowerCase == <<"a", "b", "c", "d", "e", "f", "g", "h", "i", "j", "k", "l", "m",
               "n", "o", "p", "q", "r", "s", "t", "u", "v", "w", "x", "y", "z">>
LowerChar(ch) ==
    IF \E i \in DOMAIN UpperCase : UpperCase[i] = ch
    THEN LowerCase[CHOOSE i \in DOMAIN UpperCase : UpperCase[i] = ch]
    ELSE ch
Lower(name) == [i \in DOMAIN name |-> LowerChar(name[i])]

\* No asyncio.gather is in flight.
NoGather ==
    [name |-> <<>>, suppress |-> TRUE,
     tasks |-> [cb \in {} |-> "created"], outcome |-> "none"]

NoSubscriptions == [t \in EventTypes |-> 0]

\* What a call saw when it was entered.
Snapshot ==
    [isAlive |-> isAlive, prefixes |-> prefixes,
     subscriptions |-> subscriptions, serverListener |-> serverListener]

\* No open/close/dispatch call is in flight.
CallIdle ==
    [op |-> "none", pc |-> "idle", result |-> "none", listener |-> TRUE,
     retries |-> 0, fetches |-> 0, lastFetch |-> "none", log |-> <<>>,
     pre |-> [isAlive |-> FALSE, prefixes |-> {},
              subscriptions |-> NoSubscriptions, serverListener |-> "None"]]

\* The lifecycle part of Client.__init__(events=e, server=s,
\* mention_prefix=m).
LifeInit(e, s, m) ==
    /\ events = e
    /\ server = s
    /\ isAlive = FALSE
    /\ accepts = IF e THEN "ALL" ELSE "NONE"
    /\ grabMentionPrefix = m
    /\ subscriptions = NoSubscriptions
    /\ serverListener = "None"
    /\ clientCallbacks = [n \in {} |-> {}]
    /\ call = CallIdle
    /\ gather = NoGather
    /\ startedTask = NoGather

\* Component.hooks ("None" where the component was built without hooks).
ComponentHooks(c) == IF c = 1 THEN "None" ELSE "component"

\* What Component.execute returns to a caller that has not called it.
\* pc is where the call is: at one of its awaits ("checks", "find",
\* "command") or over ("done"); ret is "pending" until it is over.
NoResult ==
    [pc |-> "done", ret |-> "false",
     ctx |-> [content |-> NoContent, triggering_name |-> NoCommand,
              command |-> NoCommand],
     invoked |-> FALSE, responded |-> FALSE, error |-> "none",
     checked |-> {}, consulted |-> {}, hooks |-> NoHooks, used |-> NoHooks]

\* No Component.execute call has been made on its own.
ExecutionIdle ==
    [component |-> 0, started |-> FALSE, ctx |-> NoResult.ctx,
     hooks |-> NoHooks, results |-> [k \in {} |-> TRUE],
     candidates |-> {}, outcome |-> "silent", r |-> NoResult]

NoEventInFlight == msg.pc = "idle" /\ ia.pc = "idle"

\* The message events handled side by side: the content of each event,
\* what the prefix getter returned for it, whether the call took a step
\* while another was suspended in the command it had called, and its
\* dispatch record.
Pipes == {1, 2}
PipeIdle == [event |-> NoContent, got |-> <<>>, getterCalled |-> FALSE,
             overlapped |-> FALSE, m |-> MsgIdle]

\* ------------------------------------------------------- module loading
\* The callbacks a module can mark with as_loader, in the order
\* inspect.getmembers yields them (sorted by name).
LoaderNames == <<"load_a", "load_b">>

\* How many modules one load_modules call is given at most.
MaxModules == 2

\* A module given to load_modules: an import name (str), a pathlib.Path
\* to a valid source file, or a Path importlib finds no loader for; and
\* the loaders the module defines.
ModuleKinds == {"name", "path", "bad_path"}
Modules == [kind : ModuleKinds, loaders : SUBSET (1..Len(LoaderNames))]

\* No load_modules call has been made.
LoadIdle == [modules |-> <<>>, result |-> "none", executed |-> {},
             invoked |-> <<>>]

\* No administrative call is observed: the call, its arguments, how it
\* ended, the client before it, and what it did on the way.  Of
\* set_global_commands: the await it is suspended in, the slash commands
\* of the components it can meet, the components its two loops found,
\* and the exception it raised.
AdminIdle ==
    [op |-> "none", component |-> 0, value |-> FALSE,
     result |-> "none", error |-> "none", at |-> "none",
     pre |-> [checks |-> {}, components |-> {},
              boundClient |-> [c \in Components |-> 0]],
     unbindCalled |-> FALSE, atUnbind |-> {},
     slash |-> [c \in Components |-> <<>>], known |-> {},
     scanned |-> {}, walked |-> {},
     restCalls |-> 0, sent |-> <<>>, tracked |-> {}]

\* No call has been made on its own.
MiscInit ==
    /\ load = LoadIdle
    /\ history = <<>>
    /\ admin = AdminIdle
    /\ cachedApplicationId = FALSE

\* A client without hooks; no message event is being handled.
AuxInit ==
    /\ clientHooks = {}
    /\ pipes = [i \in Pipes |-> PipeIdle]
    /\ MiscInit

\* ------------------------------------------------------------- bindings
\* The Client objects: 1 is the client whose dispatch is modelled, 2 is a
\* second Client of the same application.
ClientIds == {1, 2}

\* The listeners a component can be given (one event type, one callback
\* each); a listener belongs to the component that registers it.
ListenerPool == {"l1"}

\* How often one listener is subscribed to one dispatcher at most.
MaxSubscriptions == 2

\* The components in cs have been added to the client, every command is
\* bound to owner; no component has a listener.
BindInit(cs, owner) ==
    /\ boundClient = [c \in Components |-> IF c \in cs THEN 1 ELSE 0]
    /\ components2 = {}
    /\ listeners = [c \in Components |-> {}]
    /\ dispatcher = [k \in ClientIds |->
                        [c \in Components |-> [l \in ListenerPool |-> 0]]]
    /\ boundComponent = [n \in CommandPool |-> owner]

\* Client.__init__ and Component.__init__
Init ==
    /\ prefixes = {}
    /\ prefixGetter = FALSE
    /\ checks = {}
    /\ components = {}
    /\ autoDefer = TRUE
    /\ interactionNotFound = TRUE
    /\ started = [c \in Components |-> FALSE]
    /\ commands = [c \in Components |-> CommandPool]
    /\ compChecks = [c \in Components |-> IF c = 1 THEN {} ELSE CheckPool]
    /\ msg = MsgIdle
    /\ ia = IaIdle
    /\ LifeInit(TRUE, TRUE, FALSE)
    /\ execution = ExecutionIdle
    /\ BindInit({}, NumComponents)
    /\ AuxInit


\* ------------------------------------------------- administrative calls
\* These run between events.

\* Client.add_prefix (one str)
AddPrefix(p) ==
    /\ NoEventInFlight
    /\ prefixes' = prefixes \cup {p}
    /\ UNCHANGED <<otherVars, prefixGetter, checks, components, autoDefer,
                   interactionNotFound, componentVars, msg, ia>>

\* Client.remove_prefix: set.remove raises KeyError for an absent prefix
RemovePrefix(p) ==
    /\ NoEventInFlight
    /\ p \in prefixes
    /\ prefixes' = prefixes \ {p}
    /\ UNCHANGED <<otherVars, prefixGetter, checks, components, autoDefer,
                   interactionNotFound, componentVars, msg, ia>>

\* Client.set_prefix_getter (a getter, or None)
SetPrefixGetter(g) ==
    /\ NoEventInFlight
    /\ prefixGetter' = g
    /\ UNCHANGED <<otherVars, prefixes, checks, components, autoDefer,
                   interactionNotFound, componentVars, msg, ia>>

\* Client.add_check
AddCheck(k) ==
    /\ NoEventInFlight
    /\ checks' = checks \cup {k}
    /\ UNCHANGED <<otherVars, prefixes, prefixGetter, components, autoDefer,
                   interactionNotFound, componentVars, msg, ia>>

\* Client.remove_check: set.remove raises KeyError for an absent check
RemoveCheck(k) ==
    /\ NoEventInFlight
    /\ k \in checks
    /\ checks' = checks \ {k}
    /\ UNCHANGED <<otherVars, prefixes, prefixGetter, components, autoDefer,
                   interactionNotFound, componentVars, msg, ia>>

\* dispatcher.subscribe(event_, listener) for every listener in ls
SubscribeAll(dc, ls) ==
    [l \in ListenerPool |-> IF l \in ls THEN dc[l] + 1 ELSE dc[l]]

\* Component.bind_client: the client is recorded and every listener of
\* the component is subscribed to its dispatcher.
BindClient(c, k) ==
    /\ \A l \in listeners[c] : dispatcher[k][c][l] < MaxSubscriptions
    /\ boundClient' = [boundClient EXCEPT ![c] = k]
    /\ dispatcher' = [dispatcher EXCEPT
                         ![k][c] = SubscribeAll(@, listeners[c])]

\* Component.unbind_client: the client is forgotten and the listeners of
\* the component that are subscribed to its dispatcher are unsubscribed.
UnbindClient(c, k) ==
    /\ boundClient' = [boundClient EXCEPT ![c] = 0]
    /\ dispatcher' = [dispatcher EXCEPT
                         ![k][c] = [l \in ListenerPool |->
                                      IF l \in listeners[c] /\ @[l] > 0
                                      THEN @[l] - 1 ELSE @[l]]]

\* Client.add_component
AddComponentCall(c) ==
    /\ BindClient(c, 1)
    /\ components' = components \cup {c}
    /\ UNCHANGED <<lifeVars, execution, clientHooks, pipes, load, history,
                   cachedApplicationId, components2, listeners,
                   boundComponent, prefixes, prefixGetter, checks, autoDefer,
                   interactionNotFound, componentVars>>

\* Client.add_component, called between events
AddComponent(c) ==
    /\ NoEventInFlight
    /\ AddComponentCall(c)
    /\ UNCHANGED <<msg, ia, admin>>

\* Client.remove_component: set.remove raises KeyError for an absent one
RemoveComponentCall(c) ==
    /\ c \in components
    /\ components' = components \ {c}
    /\ UnbindClient(c, 1)
    /\ UNCHANGED <<lifeVars, execution, auxVars, components2, listeners,
                   boundComponent, prefixes, prefixGetter, checks, autoDefer,
                   interactionNotFound, componentVars>>

\* Client.remove_component, called between events
RemoveComponent(c) ==
    /\ NoEventInFlight
    /\ RemoveComponentCall(c)
    /\ UNCHANGED <<msg, ia>>

\* The message handler is suspended at one of its awaits: the prefix
\* getter, the global checks, the checks of a component or the command
\* it called, the response to a CommandError, or the not-found dispatch.
MsgSuspended(m) ==
    m.pc \in {"getter", "check", "execute", "command", "respond",
              "after_loop"}

\* An interaction handler is suspended at one of its awaits: the checks
\* of a component or the command it called, the future of the command,
\* the response to a CommandError, the not-found dispatch, the not-found
\* mark before and after its response, or the response future.
IaSuspended(a) ==
    a.pc \in {"execute", "command", "await_command", "respond",
              "nf_dispatch", "nf_mark", "nf_cancel", "await_future"}

\* The loop of a handler is suspended in a component's execute, in the
\* checks of the component or in the command: the set iterator of the
\* loop exists from the first call on.
InLoop(m) == m.pc \in {"execute", "command"}

\* Client._components is changed while the loop of the handler is
\* suspended in a component's execute.
MsgRegistryChanged(m, after) ==
    [m EXCEPT !.mutated = @ \/ (InLoop(m) /\ after # components)]

\* Client.add_component, called by another task while an event is being
\* handled
AddComponentInFlight(c) ==
    /\ MsgSuspended(msg) \/ IaSuspended(ia)
    /\ AddComponentCall(c)
    /\ msg' = MsgRegistryChanged(msg, components \cup {c})
    /\ ia' = MsgRegistryChanged(ia, components \cup {c})
    /\ UNCHANGED admin

\* Client.remove_component, called by another task while an event is
\* being handled
RemoveComponentInFlight(c) ==
    /\ MsgSuspended(msg) \/ IaSuspended(ia)
    /\ RemoveComponentCall(c)
    /\ msg' = MsgRegistryChanged(msg, components \ {c})
    /\ ia' = MsgRegistryChanged(ia, components \ {c})

\* Client.set_hooks (hooks, or None), called between events or by
\* another task while an event is being handled
SetHooks(h) ==
    /\ clientHooks' = IF h THEN clientHooks \cup {"client"}
                      ELSE clientHooks \ {"client"}
    /\ UNCHANGED <<lifeVars, execution, bindVars, pipes, miscVars,
                   clientVars, componentVars, msg, ia>>

\* Client.set_message_hooks (hooks, or None)
SetMessageHooks(h) ==
    /\ clientHooks' = IF h THEN clientHooks \cup {"message"}
                      ELSE clientHooks \ {"message"}
    /\ UNCHANGED <<lifeVars, execution, bindVars, pipes, miscVars,
                   clientVars, componentVars, msg, ia>>

\* Client.set_slash_hooks (hooks, or None)
SetSlashHooks(h) ==
    /\ clientHooks' = IF h THEN clientHooks \cup {"slash"}
                      ELSE clientHooks \ {"slash"}
    /\ UNCHANGED <<lifeVars, execution, bindVars, pipes, miscVars,
                   clientVars, componentVars, msg, ia>>

\* Client.add_component called on the second Client
AddComponent2(c) ==
    /\ NoEventInFlight
    /\ BindClient(c, 2)
    /\ components2' = components2 \cup {c}
    /\ UNCHANGED <<lifeVars, execution, auxVars, clientVars, listeners,
                   boundComponent, componentVars, msg, ia>>

\* Client.remove_component called on the second Client
RemoveComponent2(c) ==
    /\ NoEventInFlight
    /\ c \in components2
    /\ components2' = components2 \ {c}
    /\ UnbindClient(c, 2)
    /\ UNCHANGED <<lifeVars, execution, auxVars, clientVars, listeners,
                   boundComponent, componentVars, msg, ia>>

\* Client.set_auto_defer_after (a time, or None)
SetAutoDeferAfter(t) ==
    /\ NoEventInFlight
    /\ autoDefer' = t
    /\ UNCHANGED <<otherVars, prefixes, prefixGetter, checks, components,
                   interactionNotFound, componentVars, msg, ia>>

\* Client.set_interaction_not_found (a message, or None)
SetInteractionNotFound(m) ==
    /\ NoEventInFlight
    /\ interactionNotFound' = m
    /\ UNCHANGED <<otherVars, prefixes, prefixGetter, checks, components, autoDefer,
                   componentVars, msg, ia>>

\* Component.open, the loop over the listeners: each one is unsubscribed
\* and subscribed again.  Unsubscribing one that is not subscribed either
\* does nothing or raises, as the dispatcher decides; when it raises,
\* `continue` skips the subscription.  dc is the dispatcher's count of
\* each listener of the component; the result is every dc the loop can
\* leave.
RECURSIVE ResubscribeAll(_, _)
ResubscribeAll(dc, todo) ==
    IF todo = {} THEN {dc}
    ELSE UNION {IF dc[l] > 0
                THEN ResubscribeAll(dc, todo \ {l})
                ELSE ResubscribeAll([dc EXCEPT ![l] = 1], todo \ {l})
                     \cup ResubscribeAll(dc, todo \ {l}) : l \in todo}

\* Component.close, the loop over the listeners: each one is
\* unsubscribed; when the dispatcher raises for one that is not
\* subscribed the loop ends there.
RECURSIVE UnsubscribeAll(_, _)
UnsubscribeAll(dc, todo) ==
    IF todo = {} THEN {dc}
    ELSE UNION {IF dc[l] > 0
                THEN UnsubscribeAll([dc EXCEPT ![l] = @ - 1], todo \ {l})
                ELSE UnsubscribeAll(dc, todo \ {l}) \cup {dc} : l \in todo}

\* Component.open
ComponentOpen(c) ==
    /\ NoEventInFlight
    /\ ~started[c]
    /\ started' = [started EXCEPT ![c] = TRUE]
    /\ IF boundClient[c] = 0 THEN dispatcher' = dispatcher
       ELSE \E dc \in ResubscribeAll(dispatcher[boundClient[c]][c],
                                      listeners[c]) :
              dispatcher' = [dispatcher EXCEPT ![boundClient[c]][c] = dc]
    /\ UNCHANGED <<lifeVars, execution, auxVars, boundClient, components2, listeners,
                   boundComponent, clientVars, commands, compChecks, msg, ia>>

\* Component.close
ComponentClose(c) ==
    /\ NoEventInFlight
    /\ started[c]
    /\ started' = [started EXCEPT ![c] = FALSE]
    /\ IF boundClient[c] = 0 THEN dispatcher' = dispatcher
       ELSE \E dc \in UnsubscribeAll(dispatcher[boundClient[c]][c],
                                      listeners[c]) :
              dispatcher' = [dispatcher EXCEPT ![boundClient[c]][c] = dc]
    /\ UNCHANGED <<lifeVars, execution, auxVars, boundClient, components2, listeners,
                   boundComponent, clientVars, commands, compChecks, msg, ia>>

\* Component.add_listener: the listener is subscribed at once only on a
\* started component that has a client.
AddListener(c, l) ==
    /\ NoEventInFlight
    /\ listeners' = [listeners EXCEPT ![c] = @ \cup {l}]
    /\ IF started[c] /\ boundClient[c] # 0
       THEN /\ dispatcher[boundClient[c]][c][l] < MaxSubscriptions
            /\ dispatcher' = [dispatcher EXCEPT ![boundClient[c]][c][l] = @ + 1]
       ELSE dispatcher' = dispatcher
    /\ UNCHANGED <<lifeVars, execution, auxVars, boundClient, components2,
                   boundComponent, clientVars, componentVars, msg, ia>>

\* Component.remove_listener: set.remove raises KeyError for an absent
\* one; the listener is unsubscribed only on a started component that
\* has a client.
RemoveListener(c, l) ==
    /\ NoEventInFlight
    /\ l \in listeners[c]
    /\ listeners' = [listeners EXCEPT ![c] = @ \ {l}]
    /\ IF started[c] /\ boundClient[c] # 0 /\ dispatcher[boundClient[c]][c][l] > 0
       THEN dispatcher' = [dispatcher EXCEPT ![boundClient[c]][c][l] = @ - 1]
       ELSE dispatcher' = dispatcher
    /\ UNCHANGED <<lifeVars, execution, auxVars, boundClient, components2,
                   boundComponent, clientVars, componentVars, msg, ia>>

\* Component.add_command: the command is bound to the component and
\* added to its set.
AddCommand(c, n) ==
    /\ NoEventInFlight
    /\ boundComponent' = [boundComponent EXCEPT ![n] = c]
    /\ commands' = [commands EXCEPT ![c] = @ \cup {n}]
    /\ UNCHANGED <<lifeVars, execution, auxVars, boundClient, components2, listeners,
                   dispatcher, clientVars, started, compChecks, msg, ia>>

\* Component.remove_command: set.remove raises KeyError for an absent one
RemoveCommand(c, n) ==
    /\ NoEventInFlight
    /\ n \in commands[c]
    /\ commands' = [commands EXCEPT ![c] = @ \ {n}]
    /\ UNCHANGED <<otherVars, clientVars, started, compChecks, msg, ia>>

\* ------------------------------------------------------------ checks
\* utilities.gather_checks: every check is called, the results are AND-ed.
GatherChecks(results) == \A k \in DOMAIN results : results[k]

\* ------------------------------------------------- component execution
\* What a command callback does when it is executed: it responds and
\* returns, returns without responding, raises HaltExecution, or raises
\* CommandError(message).
Outcomes == {"respond", "silent", "halt"} \cup ErrorMessages

\* Command.check_context for message content: the content starts with the
\* command's name followed by whitespace or the end of the content.
CommandMatches(content, name) ==
    /\ StartsWith(content, name)
    /\ (Len(content) = Len(name) \/ content[Len(name) + 1] = " ")

\* `if not self.started: return False`
ExecuteRefused_Never(c) == FALSE

ExecuteRefused(c) == ~started[c]

\* `if await utilities.gather_checks(... for check in self._checks):`
ComponentGate_Open(c, checkResults) == TRUE

ComponentGate(c, checkResults) == GatherChecks(checkResults)

\* Component.check_context: the component's checks gate the commands.
CheckContext(c, content, checkResults) ==
    IF ComponentGate(c, checkResults)
    THEN {n \in commands[c] : CommandMatches(content, n)}
    ELSE {}

\* The commands Component.check_context asks for candidates: none unless
\* the component's checks passed.
Consulted(c, checkResults) ==
    IF ComponentGate(c, checkResults) THEN commands[c] ELSE {}

\* The hooks Component.execute hands to the command: the component's own
\* hooks are added to a non-empty set passed in, or make a new set.
HooksUsed(c, hooks) ==
    IF ComponentHooks(c) = "None" THEN hooks
    ELSE IF hooks.given /\ hooks.set # {}
         THEN [hooks EXCEPT !.set = @ \cup {ComponentHooks(c)}]
         ELSE [given |-> TRUE, set |-> {ComponentHooks(c)}]

\* The set the caller passed in, after Component.execute invoked a
\* command: a non-empty set has had the component's hooks added in place.
HooksPassed(c, hooks) ==
    IF ComponentHooks(c) # "None" /\ hooks.given /\ hooks.set # {}
    THEN [hooks EXCEPT !.set = @ \cup {ComponentHooks(c)}]
    ELSE hooks

\* `await command_.command.execute(ctx, hooks=hooks)` and `return True`:
\* what the caller of Component.execute gets when the command did so.
\* "halt" and "err" are HaltExecution and CommandError raised through it.
ExecuteReturn_True(outcome) == "true"

ExecuteReturn(outcome) ==
    IF outcome \in {"respond", "silent"} THEN "true"
    ELSE IF outcome = "halt" THEN "halt" ELSE "err"

\* `ctx.content = ctx.content[len(command_.name) :].lstrip()`
ExecuteStrip_NoLStrip(content, name) == Drop(content, Len(name))

ExecuteStrip(content, name) == LStrip(Drop(content, Len(name)))

\* `return False` after a loop that check_context gave no command: the
\* context and the hooks are the caller's, as they were; the component's
\* hooks are added inside the loop only.
ExecuteNotFound_HooksAdded(c, ctx, hooks) ==
    [NoResult EXCEPT !.ctx = ctx, !.hooks = HooksPassed(c, hooks)]

ExecuteNotFound(c, ctx, hooks) ==
    [NoResult EXCEPT !.ctx = ctx, !.hooks = hooks]

\* The context a handler holds in its record.
CtxOf(r) == [content |-> r.content, triggering_name |-> r.triggering_name,
             command |-> r.command]

\* utilities.async_chain runs the commands' check_context generators one
\* after the other, and Component.execute leaves at the first candidate:
\* the commands asked are the one that gave the candidate and those the
\* set yielded before it, none of which matched.
AskedSets(c, content, cand) ==
    IF cand = NoCommand THEN {{}}
    ELSE {before \cup {cand} :
            before \in SUBSET {n \in commands[c] :
                                 ~CommandMatches(content, n)}}

\* Component.execute suspended in `await utilities.gather_checks(...)`
\* with the checks it called.
ExecuteAwaitingChecks(ctx, hooks, checked) ==
    [NoResult EXCEPT !.pc = "checks", !.ret = "pending", !.ctx = ctx,
                     !.hooks = hooks, !.checked = checked]

\* Component.execute up to `await utilities.gather_checks(...)`: the
\* started test, and the checks called.
ExecuteEnter(c, ctx, hooks) ==
    IF ExecuteRefused(c)
    THEN [NoResult EXCEPT !.ctx = ctx, !.hooks = hooks]
    ELSE ExecuteAwaitingChecks(ctx, hooks, compChecks[c])

\* gather_checks has returned: check_context goes on to the commands, or
\* yields nothing and execute returns False.
ExecuteAfterChecks(c, r, results) ==
    IF ComponentGate(c, results) THEN [r EXCEPT !.pc = "find"]
    ELSE [ExecuteNotFound(c, r.ctx, r.hooks) EXCEPT
              !.checked = r.checked,
              !.consulted = Consulted(c, results)]

\* The commands have been asked: with a candidate the context and the
\* hooks are prepared and the command is called, with none execute
\* returns False.
ExecuteAfterFind(c, r, results, cand, asked) ==
    IF cand = NoCommand
    THEN [ExecuteNotFound(c, r.ctx, r.hooks) EXCEPT
              !.checked = r.checked,
              !.consulted = Consulted(c, results)]
    ELSE [r EXCEPT !.pc = "command",
                   !.ctx = [content |-> ExecuteStrip(r.ctx.content, cand),
                            triggering_name |-> cand, command |-> cand],
                   !.invoked = TRUE,
                   !.consulted = asked,
                   !.hooks = HooksPassed(c, r.hooks),
                   !.used = HooksUsed(c, r.hooks)]

\* `await command_.command.execute(ctx, hooks=hooks)` is over.
\* ret: "false", "true", "halt" or "err".
ExecuteAfterCommand(r, outcome) ==
    [r EXCEPT !.pc = "done",
              !.ret = ExecuteReturn(outcome),
              !.responded = outcome = "respond",
              !.error = IF outcome \in ErrorMessages THEN outcome ELSE "none"]

\* Component.execute from the record r0 of its entry to
\* `await command_.command.execute(ctx, hooks=hooks)`, or to its end
\* when it calls no command.
ExecuteToCommand(c, r0, results, cand, asked) ==
    LET r1 == IF r0.pc = "checks" THEN ExecuteAfterChecks(c, r0, results)
              ELSE r0
    IN  IF r1.pc = "find"
        THEN ExecuteAfterFind(c, r1, results, cand, asked) ELSE r1

\* Component.execute suspended in the command it called, for a caller
\* whose record m holds the context and the hooks it was given.
ExecuteInCommand(m) ==
    [NoResult EXCEPT !.pc = "command", !.ret = "pending", !.ctx = CtxOf(m),
                     !.invoked = TRUE, !.hooks = m.hooks, !.used = m.used,
                     !.checked = m.compChecked]

\* Component.execute from the record r0 of its entry to its end; results
\* are what the component's checks return, cand is the first candidate
\* check_context yields (or NoCommand when it yields none), asked the
\* commands it asked for it, outcome is what the command then does.
ExecuteResume(c, r0, results, cand, asked, outcome) ==
    LET r2 == ExecuteToCommand(c, r0, results, cand, asked)
    IN  IF r2.pc = "command" THEN ExecuteAfterCommand(r2, outcome) ELSE r2

\* Component.execute from its call to its end.
ComponentExecute(c, ctx, hooks, results, cand, asked, outcome) ==
    ExecuteResume(c, ExecuteEnter(c, ctx, hooks), results, cand, asked,
                  outcome)

\* `async for command_ in self.check_context(ctx):` takes the first
\* candidate check_context yields: any of them, as a set has no order.
YieldedFirst(c, content, checkResults) ==
    IF CheckContext(c, content, checkResults) = {}
    THEN {NoCommand}
    ELSE CheckContext(c, content, checkResults)

\* ---------------------------------------------------- message dispatch
\* Client._check_prefix from the return of the getter on: the values it
\* can return for this content when the getter returned got, or was not
\* called (got is then empty); the static set, read now, is iterated in
\* an arbitrary order.
CheckPrefix_StaticFirst(content, got) ==
    LET hits == {i \in 1..Len(got) : StartsWith(content, got[i])}
        static == {p \in prefixes : StartsWith(content, p)}
    IN  IF static # {} THEN static
        ELSE IF hits # {}
        THEN {got[CHOOSE i \in hits : \A j \in hits : i <= j]}
        ELSE {NoPrefix}

CheckPrefix(content, got) ==
    LET hits == {i \in 1..Len(got) : StartsWith(content, got[i])}
        static == {p \in prefixes : StartsWith(content, p)}
    IN  IF hits # {}
        THEN {got[CHOOSE i \in hits : \A j \in hits : i <= j]}
        ELSE IF static # {} THEN static ELSE {NoPrefix}

\* on_message_create_event, `if prefix is None: return`
MsgNoPrefix(m) == [m EXCEPT !.pc = "done"]

\* on_message_create_event from the result of the getter loop to the
\* first global check: the static prefixes, the test of the prefix and
\* the stripped content.  The records it can leave for an event with
\* this content when the prefix getter returned got.
MsgResolve(content, got) ==
    {LET m == [MsgIdle EXCEPT
                  !.content = content,
                  !.prefixable =
                     \E p \in prefixes \cup {got[i] : i \in 1..Len(got)} :
                        StartsWith(content, p)]
     IN  IF prefix = NoPrefix
         THEN MsgNoPrefix(m)
         ELSE [m EXCEPT !.pc = "check",
                        !.content = StripPrefix(content, prefix),
                        !.prefix = prefix]
     : prefix \in CheckPrefix(content, got)}

\* on_message_create_event up to its first await: the content test and
\* the context; with a getter set _check_prefix awaits it, without one
\* it goes on to the static prefixes at once.
MsgEnter(content) ==
    IF content = NoContent THEN {[MsgIdle EXCEPT !.pc = "done"]}
    ELSE IF prefixGetter
    THEN {[MsgIdle EXCEPT !.pc = "getter", !.content = content]}
    ELSE MsgResolve(content, <<>>)

\* The handler from its call to the first global check, when nothing
\* else runs while it awaits the getter.
MsgReceiveWith(content, got) ==
    IF content = NoContent THEN MsgEnter(content)
    ELSE MsgResolve(content, got)

\* What `await self._prefix_getter(ctx)` can return.
GetterReturns == SeqsOver(PrefixPool, MaxGetterLen)

MsgReceive ==
    /\ NoEventInFlight
    /\ UNCHANGED ia
    /\ \E content \in Strings(MaxContentLen) \cup {NoContent} :
          msg' \in MsgEnter(content)
    /\ UNCHANGED <<otherVars, clientVars, componentVars>>

\* `for prefix in await self._prefix_getter(ctx):` the getter returns
MsgGetter ==
    /\ msg.pc = "getter"
    /\ \E got \in GetterReturns : msg' \in MsgResolve(msg.content, got)
    /\ UNCHANGED <<otherVars, clientVars, componentVars, ia>>

\* A missing `return`: the failed gate is not acted on.
MsgCheckFailed_Continue(m) == [m EXCEPT !.pc = "loop"]

\* `if not await self.check(ctx): return`
MsgCheckFailed(m) == [m EXCEPT !.pc = "done"]

\* A new set of those of the client's hooks in kinds that are set, or
\* None when none of them is.
ClientHooksOf(kinds) ==
    IF clientHooks \cap kinds = {} THEN NoHooks
    ELSE [given |-> TRUE, set |-> clientHooks \cap kinds]

\* The `hooks` local of on_message_create_event
ClientMessageHooks == ClientHooksOf({"client", "message"})

\* Client._get_slash_hooks
ClientSlashHooks == ClientHooksOf({"client", "slash"})

\* The loop goes on after a component reported a command found.
MsgOnFound_NoBreak(m, c) == [m EXCEPT !.found = @ \cup {c}]

\* `if await component.execute_message(...): break`
MsgOnFound(m, c) == [m EXCEPT !.pc = "after_loop", !.exit = "break",
                              !.found = @ \cup {c}]

\* `except errors.HaltExecution: pass`
MsgOnHalt(m) == [m EXCEPT !.pc = "after_loop", !.exit = "halt"]

\* `except errors.CommandError as exc: await ctx.respond(exc.message)`:
\* the handler is suspended in the respond call.
MsgOnCommandError(m, message) ==
    [m EXCEPT !.pc = "respond", !.exit = "error", !.error = message]

\* The CommandError handler without its `return`.
MsgErrorResponded_NoReturn(m) ==
    [m EXCEPT !.pc = "after_loop", !.responses = Append(@, m.error)]

\* ctx.respond(exc.message) is over: `return`
MsgErrorResponded(m) ==
    [m EXCEPT !.pc = "done", !.responses = Append(@, m.error)]

\* component.execute_message of c has returned r, or raised: what the
\* client does with it.  At "loop" the handler goes on to the next
\* component.
MsgAfterExecute(m, c, r) ==
    LET m1 == [m EXCEPT !.pc = "loop",
                        !.current = 0,
                        !.compChecked = {},
                        !.tried = @ \cup {c},
                        !.yielded = @ + 1,
                        !.askedAfterFound = @ \/ (m.found # {}),
                        !.askedAfterError = @ \/ (m.error # "none"),
                        !.content = r.ctx.content,
                        !.triggering_name = r.ctx.triggering_name,
                        !.command = r.ctx.command,
                        !.responses = IF r.responded THEN Append(@, "pong") ELSE @,
                        !.hooks = r.hooks]
    IN  CASE r.ret = "true" -> MsgOnFound(m1, c)
          [] r.ret = "halt" -> MsgOnHalt(m1)
          [] r.ret = "err" -> MsgOnCommandError(m1, r.error)
          [] OTHER -> m1

\* Component.execute of c has prepared the context and the hooks as r
\* has them and called the command: the handler is suspended in the
\* command.
InCommand(m, c, r) ==
    [m EXCEPT !.pc = "command",
              !.content = r.ctx.content,
              !.triggering_name = r.ctx.triggering_name,
              !.command = r.ctx.command,
              !.executed = Append(@, c),
              !.hooks = r.hooks,
              !.used = r.used]

\* The execute of component c, suspended with the checks of
\* m.compChecked called, goes on: what its checks return, the candidate
\* it finds and the commands it asked for it.
ExecuteChoices(c, m) ==
    UNION {UNION {{[results |-> results, cand |-> cand, asked |-> asked]
                   : asked \in AskedSets(c, m.content, cand)}
                  : cand \in YieldedFirst(c, m.content, results)}
           : results \in [m.compChecked -> BOOLEAN]}

\* Component.execute of m.current from the return of its checks to the
\* command it calls or, with no command to call, to its end.
ExecuteFromChecks(m, t) ==
    ExecuteToCommand(m.current,
                     ExecuteAwaitingChecks(CtxOf(m), m.hooks, m.compChecked),
                     t.results, t.cand, t.asked)

\* The set iterator of the loop refuses to go on: the size of
\* Client._components is not what it was when the loop began.  Every
\* step of the iterator makes the test, the one that would end the loop
\* too.  The three handlers loop over the set in the same way.
MsgSetChanged(m) == Cardinality(components) # m.iterSize

\* RuntimeError("Set changed size during iteration") leaves the handler.
MsgOnSetChanged(m) == [m EXCEPT !.pc = "done", !.exit = "raised"]

\* The loop is over: the iterator has no component left.
MsgOnExhausted(m) == [m EXCEPT !.pc = "after_loop", !.exit = "exhausted"]

\* How many components the loop of one message event is given at most
\* by an iterator whose set was changed under it.
MaxYields == 3

\* The components the set iterator can yield next.  It walks the slots
\* of the set's table once: on a set that was changed under it and has
\* its old size again, a member moved to a slot it has not reached is
\* yielded a second time, and one moved behind it is never yielded.
MsgYieldable(m) ==
    (components \ m.tried)
    \cup (IF m.mutated /\ m.yielded < MaxYields THEN components ELSE {})

RECURSIVE MsgAdvance(_)

\* `if await component.execute_message(ctx, hooks=hooks): break` once the
\* call on c is over with r: the handler leaves the loop, or goes round.
MsgReturned(m, c, r) ==
    LET n == MsgAfterExecute(m, c, r)
    IN  IF n.pc = "loop" THEN MsgAdvance(n) ELSE {n}

\* `await component.execute_message(ctx, hooks=hooks)` is called on c: a
\* component that is not started returns without an await, any other
\* suspends the handler in `await utilities.gather_checks(...)`.
MsgCall(m, c) ==
    LET r0 == ExecuteEnter(c, CtxOf(m), m.hooks)
    IN  IF r0.pc = "done" THEN MsgReturned(m, c, r0)
        ELSE {[m EXCEPT !.pc = "execute", !.current = c,
                        !.compChecked = r0.checked]}

\* `for component in self._components:` the iterator is asked for the
\* next component and the handler runs to its next await.
MsgAdvance(m) ==
    IF MsgSetChanged(m) THEN {MsgOnSetChanged(m)}
    ELSE IF MsgYieldable(m) = {} THEN {MsgOnExhausted(m)}
    ELSE (IF m.mutated THEN {MsgOnExhausted(m)} ELSE {})
         \cup UNION {MsgCall(m, c) : c \in MsgYieldable(m)}

\* The checks of the component the handler is suspended in have
\* returned: the execute goes on to the command and suspends the handler
\* there, or returns False and the handler runs to its next await.  The
\* component is the one the iterator gave, a member of
\* Client._components or not by now.
MsgExecuteChecksNext(m) ==
    UNION {LET r == ExecuteFromChecks(m, t)
           IN  IF r.pc = "command" THEN {InCommand(m, m.current, r)}
               ELSE MsgReturned(m, m.current, r)
           : t \in ExecuteChoices(m.current, m)}

MsgExecuteChecks ==
    /\ msg.pc = "execute"
    /\ msg' \in MsgExecuteChecksNext(msg)
    /\ UNCHANGED <<otherVars, clientVars, componentVars, ia>>

\* The command the handler is suspended in has returned or raised: the
\* execute is over and the handler runs to its next await.
MsgExecuteCommandNext(m) ==
    UNION {MsgReturned(m, m.current,
                       ExecuteAfterCommand(ExecuteInCommand(m), outcome))
           : outcome \in Outcomes}

MsgExecuteCommand ==
    /\ msg.pc = "command"
    /\ msg' \in MsgExecuteCommandNext(msg)
    /\ UNCHANGED <<otherVars, clientVars, componentVars, ia>>

\* The records Client.check and the statements up to the first await of
\* the loop can leave: the iterator of the loop is made over the set as
\* it is then.
MsgCheckNext(m) ==
    UNION {LET m1 == [m EXCEPT !.checked = TRUE,
                               !.checkFailed = ~GatherChecks(results)]
               m2 == IF GatherChecks(results) THEN [m1 EXCEPT !.pc = "loop"]
                     ELSE MsgCheckFailed(m1)
           IN  IF m2.pc = "loop"
               THEN MsgAdvance([m2 EXCEPT
                                   !.hooks = ClientMessageHooks,
                                   !.iterSize = Cardinality(components)])
               ELSE {m2}
           : results \in [checks -> BOOLEAN]}

MsgCheck ==
    /\ msg.pc = "check"
    /\ msg' \in MsgCheckNext(msg)
    /\ UNCHANGED <<otherVars, clientVars, componentVars, ia>>

\* The response to a CommandError has been sent.
MsgRespondNext(m) == {MsgErrorResponded(m)}

MsgRespond ==
    /\ msg.pc = "respond"
    /\ msg' \in MsgRespondNext(msg)
    /\ UNCHANGED <<otherVars, clientVars, componentVars, ia>>

\* The handler ends without the dispatch.
MsgDispatchNotFound_Skip(m) == [m EXCEPT !.pc = "done"]

\* `await self.dispatch_client_callback(MESSAGE_COMMAND_NOT_FOUND, ctx)`
MsgDispatchNotFound(m) == [m EXCEPT !.pc = "done", !.notFound = @ + 1]

\* The statement after the try block
MsgNotFoundNext(m) == {MsgDispatchNotFound(m)}

MsgNotFound ==
    /\ msg.pc = "after_loop"
    /\ msg' \in MsgNotFoundNext(msg)
    /\ UNCHANGED <<otherVars, clientVars, componentVars, ia>>

\* ------------------------------------------------ interaction context
\* SlashContext: one initial response per interaction, taken by whichever
\* of respond, defer and mark_not_found reaches it first; on the request
\* entry point the initial response is the result of the response future.
CtxInitial(a, kind) ==
    [a EXCEPT !.initial = <<kind>>,
              !.resolved = IF a.entry = "request" THEN @ + 1 ELSE @]

\* SlashContext.respond: the initial response, or an edit / follow-up of it
CtxRespond(a, kind) ==
    IF a.initial = <<>> THEN CtxInitial(a, kind)
    ELSE [a EXCEPT !.edits = Append(@, kind)]

\* SlashContext.defer as run by the auto-defer timer: it gives way to a
\* response that has already started
CtxDefer(a) ==
    IF a.initial = <<>> THEN CtxInitial(a, "deferred") ELSE a

\* SlashContext.mark_not_found: responds with the not-found message when
\* there is one and no real response has been made
CtxMarkNotFound(a, message) ==
    IF ~message THEN a
    ELSE IF a.initial = <<>> THEN CtxInitial(a, "notfound")
    ELSE IF a.initial = <<"deferred">> /\ a.edits = <<>>
         THEN [a EXCEPT !.edits = Append(@, "notfound")]
    ELSE a

\* SlashContext.cancel_defer
CtxCancelDefer(a) ==
    [a EXCEPT !.timer = IF @ = "pending" THEN "cancelled" ELSE @]

\* SlashContext.start_defer_timer
CtxStartDeferTimer(a) == [a EXCEPT !.timer = "pending"]

\* The auto-defer task, once its sleep is over
TimerFire ==
    /\ ia.timer = "pending"
    /\ ia' = [CtxDefer(ia) EXCEPT !.timer = "fired"]
    /\ UNCHANGED <<otherVars, clientVars, componentVars, msg>>

\* ------------------------------------------------ interaction dispatch
\* event: `await future`   request: `return await future`
IaOnFound(a, c) ==
    [a EXCEPT !.found = @ \cup {c}, !.exit = "found",
              !.pc = IF a.entry = "event" THEN "await_command"
                     ELSE "await_future"]

\* The not-found path is entered: the event entry point goes on to await
\* the dispatch, the request entry point creates the dispatch task and
\* awaits the response future.
IaEnterNotFound(a) ==
    IF a.entry = "event" THEN [a EXCEPT !.pc = "nf_dispatch"]
    ELSE [a EXCEPT !.pc = "await_future", !.dispatchTask = "pending"]

\* `except errors.HaltExecution: pass`
IaOnHalt(a) == IaEnterNotFound([a EXCEPT !.exit = "halt"])

\* event: `await ctx.respond(exc.message)`, the handler is suspended in
\* the respond call
\* request: `asyncio.create_task(ctx.respond(exc.message)); return await future`
IaOnCommandError(a, message) ==
    LET b == [a EXCEPT !.exit = "error", !.error = message]
    IN  IF a.entry = "event" THEN [b EXCEPT !.pc = "respond"]
        ELSE [b EXCEPT !.pc = "await_future", !.respondTask = "pending"]

\* component.execute_interaction of c has returned r, or raised: what
\* the client does with it.  At "loop" the handler goes on to the next
\* component.
IaAfterExecute(a, c, r) ==
    LET a1 == [a EXCEPT !.pc = "loop",
                        !.current = 0,
                        !.compChecked = {},
                        !.tried = @ \cup {c},
                        !.yielded = @ + 1,
                        !.askedAfterFound = @ \/ (a.found # {}),
                        !.askedAfterError = @ \/ (a.error # "none"),
                        !.content = r.ctx.content,
                        !.triggering_name = r.ctx.triggering_name,
                        !.command = r.ctx.command,
                        !.hooks = r.hooks]
        a2 == IF r.responded THEN CtxRespond(a1, "pong") ELSE a1
    IN  CASE r.ret = "true" -> IaOnFound(a2, c)
          [] r.ret = "halt" -> IaOnHalt(a2)
          [] r.ret = "err" -> IaOnCommandError(a2, r.error)
          [] OTHER -> a2

\* The loop is over: the iterator has no component left.
IaOnExhausted(a) == IaEnterNotFound([a EXCEPT !.exit = "exhausted"])

RECURSIVE IaAdvance(_)

\* `if future := await component.execute_interaction(ctx, hooks=hooks):`
\* once the call on c is over with r: the handler leaves the loop, or
\* goes round.
IaReturned(a, c, r) ==
    LET n == IaAfterExecute(a, c, r)
    IN  IF n.pc = "loop" THEN IaAdvance(n) ELSE {n}

\* `await component.execute_interaction(ctx, hooks=hooks)` is called on
\* c: a component that is not started returns without an await, any
\* other suspends the handler in `await utilities.gather_checks(...)`.
IaCall(a, c) ==
    LET r0 == ExecuteEnter(c, CtxOf(a), a.hooks)
    IN  IF r0.pc = "done" THEN IaReturned(a, c, r0)
        ELSE {[a EXCEPT !.pc = "execute", !.current = c,
                        !.compChecked = r0.checked]}

\* `for component in self._components:` the iterator is asked for the
\* next component and the handler runs to its next await; a
\* RuntimeError of the iterator leaves the handler, on either entry
\* point.
IaAdvance(a) ==
    IF MsgSetChanged(a) THEN {MsgOnSetChanged(a)}
    ELSE IF MsgYieldable(a) = {} THEN {IaOnExhausted(a)}
    ELSE (IF a.mutated THEN {IaOnExhausted(a)} ELSE {})
         \cup UNION {IaCall(a, c) : c \in MsgYieldable(a)}

\* The handler from the context to the first await of the loop: the
\* hooks of _get_slash_hooks, the auto-defer timer, and the iterator of
\* the loop made over the set as it is then.
IaEnterLoop(a, name) ==
    LET b == [a EXCEPT !.pc = "loop", !.content = name,
                       !.hooks = ClientSlashHooks,
                       !.iterSize = Cardinality(components)]
    IN  IaAdvance(IF autoDefer THEN CtxStartDeferTimer(b) ELSE b)

\* on_interaction_create_event up to its first await
IaReceiveEvent ==
    /\ NoEventInFlight
    /\ UNCHANGED msg
    /\ \E isCommand \in BOOLEAN, name \in SlashNames :
         LET a == [IaIdle EXCEPT !.entry = "event"]
         IN  ia' \in IF ~isCommand THEN {[a EXCEPT !.pc = "done"]}
                     ELSE IaEnterLoop(a, name)
    /\ UNCHANGED <<otherVars, clientVars, componentVars>>

\* on_interaction_create_request up to its first await
IaReceiveRequest ==
    /\ NoEventInFlight
    /\ UNCHANGED msg
    /\ \E name \in SlashNames :
         ia' \in IaEnterLoop([IaIdle EXCEPT !.entry = "request"], name)
    /\ UNCHANGED <<otherVars, clientVars, componentVars>>

\* The checks of the component the handler is suspended in have
\* returned: the execute goes on to the command and suspends the handler
\* there, or returns False and the handler runs to its next await.
IaExecuteChecks ==
    /\ ia.pc = "execute"
    /\ \E t \in ExecuteChoices(ia.current, ia) :
         LET r == ExecuteFromChecks(ia, t)
         IN  ia' \in IF r.pc = "command" THEN {InCommand(ia, ia.current, r)}
                     ELSE IaReturned(ia, ia.current, r)
    /\ UNCHANGED <<otherVars, clientVars, componentVars, msg>>

\* The command the handler is suspended in has returned or raised: the
\* execute is over and the handler runs to its next await.
IaExecuteCommand ==
    /\ ia.pc = "command"
    /\ \E outcome \in Outcomes :
         ia' \in IaReturned(ia, ia.current,
                            ExecuteAfterCommand(ExecuteInCommand(ia),
                                                outcome))
    /\ UNCHANGED <<otherVars, clientVars, componentVars, msg>>

\* event: the future execute_interaction returned is done, `return`
IaCommandDone ==
    /\ ia.pc = "await_command"
    /\ ia' = [ia EXCEPT !.pc = "done"]
    /\ UNCHANGED <<otherVars, clientVars, componentVars, msg>>

\* event: ctx.respond(exc.message) makes the response, `return`
IaErrorRespond ==
    /\ ia.pc = "respond"
    /\ ia' = [CtxRespond(ia, ia.error) EXCEPT !.pc = "done"]
    /\ UNCHANGED <<otherVars, clientVars, componentVars, msg>>

\* event: `await self.dispatch_client_callback(SLASH_COMMAND_NOT_FOUND, ctx)`
IaDispatchNotFound ==
    /\ ia.pc = "nf_dispatch"
    /\ ia' = [ia EXCEPT !.pc = "nf_mark", !.notFound = @ + 1,
                        !.log = Append(@, "dispatch")]
    /\ UNCHANGED <<otherVars, clientVars, componentVars, msg>>

\* event: `await ctx.mark_not_found()`: the handler is suspended in the
\* call once it has made its response
IaMarkNotFound ==
    /\ ia.pc = "nf_mark"
    /\ ia' = [CtxMarkNotFound(ia, interactionNotFound) EXCEPT
                 !.pc = "nf_cancel", !.log = Append(@, "mark")]
    /\ UNCHANGED <<otherVars, clientVars, componentVars, msg>>

\* event: mark_not_found has returned, `ctx.cancel_defer()`
IaCancelDefer ==
    /\ ia.pc = "nf_cancel"
    /\ ia' = [CtxCancelDefer(ia) EXCEPT !.pc = "done",
                                        !.log = Append(@, "cancel")]
    /\ UNCHANGED <<otherVars, clientVars, componentVars, msg>>

\* request: `.add_done_callback(callback)` with `async def callback`: the
\* loop calls callback(task), which only builds a coroutine object that
\* nothing awaits, so its body never runs.
IaDoneCallback(a) == a

\* request: the task created for dispatch_client_callback, and its done
\* callback
IaDispatchTask ==
    /\ ia.dispatchTask = "pending"
    /\ ia' = IaDoneCallback([ia EXCEPT !.dispatchTask = "done",
                                       !.notFound = @ + 1,
                                       !.log = Append(@, "dispatch")])
    /\ UNCHANGED <<otherVars, clientVars, componentVars, msg>>

\* request: the task created for ctx.respond(exc.message)
IaRespondTask ==
    /\ ia.respondTask = "pending"
    /\ ia' = [CtxRespond(ia, ia.error) EXCEPT !.respondTask = "done"]
    /\ UNCHANGED <<otherVars, clientVars, componentVars, msg>>

\* request: `return await future` once the future has a result
IaReturn ==
    /\ ia.pc = "await_future"
    /\ ia.resolved > 0
    /\ ia' = [ia EXCEPT !.pc = "done"]
    /\ UNCHANGED <<otherVars, clientVars, componentVars, msg>>

\* The handler has returned: its context is dropped, and with it whatever
\* its leftover tasks could still do to it.
MsgDiscard ==
    /\ msg.pc = "done"
    /\ msg' = MsgIdle
    /\ UNCHANGED <<otherVars, clientVars, componentVars, ia>>

IaDiscard ==
    /\ ia.pc = "done"
    /\ ia' = IaIdle
    /\ UNCHANGED <<otherVars, clientVars, componentVars, msg>>

Admin ==
    \/ \E p \in PrefixPool : AddPrefix(p)
    \/ \E p \in PrefixPool : RemovePrefix(p)
    \/ \E g \in BOOLEAN : SetPrefixGetter(g)
    \/ \E k \in CheckPool : AddCheck(k)
    \/ \E k \in CheckPool : RemoveCheck(k)
    \/ \E c \in Components : AddComponent(c)
    \/ \E c \in Components : RemoveComponent(c)
    \/ \E t \in BOOLEAN : SetAutoDeferAfter(t)
    \/ \E m \in BOOLEAN : SetInteractionNotFound(m)
    \/ \E c \in Components : ComponentOpen(c)
    \/ \E c \in Components : ComponentClose(c)

Message ==
    \/ MsgReceive \/ MsgGetter \/ MsgCheck \/ MsgExecuteChecks
    \/ MsgExecuteCommand \/ MsgRespond \/ MsgNotFound \/ MsgDiscard

Interaction ==
    \/ IaReceiveEvent \/ IaReceiveRequest
    \/ IaExecuteChecks \/ IaExecuteCommand
    \/ IaCommandDone \/ IaErrorRespond
    \/ IaDispatchNotFound \/ IaMarkNotFound \/ IaCancelDefer
    \/ IaDispatchTask \/ IaRespondTask \/ IaReturn \/ TimerFire \/ IaDiscard

Next == Admin \/ Message \/ Interaction

Spec == Init /\ [][Next]_vars

\* ===================================================== client lifecycle
\* Everything the dispatch pipelines own apart from the prefixes.
pipelineVars == <<prefixGetter, checks, components, autoDefer,
                  interactionNotFound, componentVars, msg, ia, execution,
                  bindVars, auxVars>>

NoCallInFlight == call.pc = "idle"

\* ------------------------------------------------- the callback registry
\* event_name = event_name.lower()
CallbackKey_AsGiven(name) == name

CallbackKey(name) == Lower(name)

\* Client.get_client_callbacks
GetClientCallbacks(name) ==
    IF CallbackKey(name) \in DOMAIN clientCallbacks
    THEN clientCallbacks[CallbackKey(name)]
    ELSE {}

\* Client.add_client_callback
AddClientCallback(name, cb) ==
    /\ NoCallInFlight
    /\ clientCallbacks' =
           IF CallbackKey(name) \in DOMAIN clientCallbacks
           THEN [clientCallbacks EXCEPT ![CallbackKey(name)] = @ \cup {cb}]
           ELSE (CallbackKey(name) :> {cb}) @@ clientCallbacks
    /\ UNCHANGED <<prefixes, pipelineVars, events, server, isAlive, accepts,
                   grabMentionPrefix, subscriptions, serverListener, call,
                   gather, startedTask>>

\* Client.remove_client_callback; a name or callback that is not
\* registered raises KeyError and changes nothing.
RemoveClientCallback(name, cb) ==
    /\ NoCallInFlight
    /\ CallbackKey(name) \in DOMAIN clientCallbacks
    /\ cb \in clientCallbacks[CallbackKey(name)]
    /\ clientCallbacks' =
           IF clientCallbacks[CallbackKey(name)] = {cb}
           THEN [n \in DOMAIN clientCallbacks \ {CallbackKey(name)} |->
                     clientCallbacks[n]]
           ELSE [clientCallbacks EXCEPT ![CallbackKey(name)] = @ \ {cb}]
    /\ UNCHANGED <<prefixes, pipelineVars, events, server, isAlive, accepts,
                   grabMentionPrefix, subscriptions, serverListener, call,
                   gather, startedTask>>

\* ------------------------------------------------ dispatching callbacks
\* What a callback does when its task next runs: it returns, it raises,
\* or (an asynchronous callback, when first called) it awaits something.
Behaviours(state) ==
    IF state = "created" THEN {"return", "raise", "await"}
    ELSE {"return", "raise"}

\* _wrap_client_callback: the state of the wrapper's task after the
\* callback behaved so.
WrapClientCallback_Reraise(behaviour, suppress) ==
    CASE behaviour = "await" -> "suspended"
      [] behaviour = "return" -> "returned"
      [] OTHER -> "raised"

WrapClientCallback(behaviour, suppress) ==
    CASE behaviour = "await" -> "suspended"
      [] behaviour = "return" -> "returned"
      [] OTHER -> IF suppress THEN "logged" ELSE "raised"

\* Client.dispatch_client_callback up to its await: one wrapper task per
\* callback registered under the name; with none registered nothing is
\* awaited and the dispatch has returned.
NewGather(name, suppress) ==
    LET cbs == GetClientCallbacks(name)
    IN  [name |-> CallbackKey(name), suppress |-> suppress,
         tasks |-> [cb \in cbs |-> "created"],
         outcome |-> IF cbs = {} THEN "returned" ELSE "pending"]

\* The tasks of a gather that can still run.
Runnable(g) == {cb \in DOMAIN g.tasks : g.tasks[cb] \in {"created", "suspended"}}

\* asyncio.gather(*wrappers): one task ran.  The first task to raise
\* settles the gather with its exception; the others are left running.
\* The gather returns once every task has returned.
GatherAfter(g, cb, behaviour) ==
    LET st == WrapClientCallback(behaviour, g.suppress)
        tasks == [g.tasks EXCEPT ![cb] = st]
    IN  [g EXCEPT !.tasks = tasks,
                  !.outcome =
                      IF g.outcome # "pending" THEN g.outcome
                      ELSE IF st = "raised" THEN "raised"
                      ELSE IF \A c \in DOMAIN tasks :
                                  tasks[c] \in {"returned", "logged"}
                           THEN "returned"
                      ELSE "pending"]

\* The awaiter of a settled gather runs again.  Every task was scheduled
\* before the awaiter suspended, so each has run at least once by then.
GatherResumes(g) ==
    /\ g.outcome \in {"returned", "raised"}
    /\ \A cb \in DOMAIN g.tasks : g.tasks[cb] # "created"

\* A callback task of the awaited dispatch runs.
CallbackStep ==
    /\ \E cb \in Runnable(gather) : \E b \in Behaviours(gather.tasks[cb]) :
           gather' = GatherAfter(gather, cb, b)
    /\ UNCHANGED <<prefixes, pipelineVars, events, server, isAlive, accepts,
                   grabMentionPrefix, subscriptions, serverListener,
                   clientCallbacks, call, startedTask>>

\* Client.dispatch_client_callback called by the application.
DispatchClientCallback(name, suppress) ==
    /\ NoCallInFlight
    /\ LET g == NewGather(name, suppress)
           c == [CallIdle EXCEPT !.op = "dispatch", !.pre = Snapshot,
                                 !.log = <<name>>]
       IN  /\ gather' = g
           /\ call' = IF g.outcome = "returned"
                      THEN [c EXCEPT !.pc = "done", !.result = "returned"]
                      ELSE [c EXCEPT !.pc = "awaiting"]
    /\ UNCHANGED <<prefixes, pipelineVars, events, server, isAlive, accepts,
                   grabMentionPrefix, subscriptions, serverListener,
                   clientCallbacks, startedTask>>

\* The await of the dispatch returns or raises.
DispatchResume ==
    /\ call.pc = "awaiting"
    /\ GatherResumes(gather)
    /\ call' = [call EXCEPT !.pc = "done", !.result = gather.outcome]
    /\ UNCHANGED <<prefixes, pipelineVars, events, server, isAlive, accepts,
                   grabMentionPrefix, subscriptions, serverListener,
                   clientCallbacks, gather, startedTask>>

\* ------------------------------------------------------- open and close
\* EventManager.subscribe
Subscribe(subs, type) ==
    IF type = "None" THEN subs ELSE [subs EXCEPT ![type] = @ + 1]

\* Client._try_unsubscribe: a listener that is not subscribed is ignored.
TryUnsubscribe(subs, type) ==
    IF type # "None" /\ subs[type] > 0
    THEN [subs EXCEPT ![type] = @ - 1]
    ELSE subs

\* Client.open from the mention prefixes on: the prefixes are added, the
\* listeners registered and the STARTED task created; open returns.
OpenRegister(c) ==
    /\ prefixes' = IF grabMentionPrefix THEN prefixes \cup MentionPrefixes
                   ELSE prefixes
    /\ grabMentionPrefix' = FALSE
    /\ subscriptions' =
           IF c.listener /\ events
           THEN Subscribe(Subscribe(subscriptions, GetEventType(accepts)),
                          "InteractionCreateEvent")
           ELSE subscriptions
    /\ serverListener' = IF server THEN "on_interaction_create_request"
                         ELSE serverListener
    /\ startedTask' = [NoGather EXCEPT !.outcome = "created"]
    /\ call' = [c EXCEPT
           !.pc = "done", !.result = "returned",
           !.log = @ \o (IF c.listener /\ events
                         THEN (IF GetEventType(accepts) # "None"
                               THEN <<"subscribe message">> ELSE <<>>)
                              \o <<"subscribe interaction">>
                         ELSE <<>>)
                     \o (IF server THEN <<"set_listener">> ELSE <<>>)
                     \o <<"create_task started">>]

\* Client.open once the STARTING dispatch has returned: the client is
\* alive; the bot's user comes from the cache or is fetched.
OpenAfterStarting_NotAlive(c) ==
    /\ isAlive' = FALSE
    /\ IF grabMentionPrefix
       THEN \E cached \in BOOLEAN :
               IF cached THEN OpenRegister(c)
               ELSE /\ call' = [c EXCEPT !.pc = "fetch"]
                    /\ UNCHANGED <<prefixes, grabMentionPrefix, subscriptions,
                                   serverListener, startedTask>>
       ELSE OpenRegister(c)

OpenAfterStarting(c) ==
    /\ isAlive' = TRUE
    /\ IF grabMentionPrefix
       THEN \E cached \in BOOLEAN :
               IF cached THEN OpenRegister(c)
               ELSE /\ call' = [c EXCEPT !.pc = "fetch"]
                    /\ UNCHANGED <<prefixes, grabMentionPrefix, subscriptions,
                                   serverListener, startedTask>>
       ELSE OpenRegister(c)

\* The guard of Client.open.
OpenRefused_Never == FALSE

OpenRefused == isAlive

\* Client.open(register_listener=register) up to its first await.
Open(register) ==
    /\ NoCallInFlight
    /\ LET c == [CallIdle EXCEPT !.op = "open", !.listener = register,
                                 !.pre = Snapshot]
           g == NewGather(STARTING, FALSE)
       IN  IF OpenRefused
           THEN /\ call' = [c EXCEPT !.pc = "done", !.result = "raised"]
                /\ UNCHANGED <<prefixes, isAlive, grabMentionPrefix,
                               subscriptions, serverListener, gather,
                               startedTask>>
           ELSE /\ gather' = g
                /\ IF g.outcome = "returned"
                   THEN OpenAfterStarting([c EXCEPT !.log = <<STARTING>>])
                   ELSE /\ call' = [c EXCEPT !.pc = "starting",
                                             !.log = <<STARTING>>]
                        /\ UNCHANGED <<prefixes, isAlive, grabMentionPrefix,
                                       subscriptions, serverListener,
                                       startedTask>>
    /\ UNCHANGED <<pipelineVars, events, server, accepts, clientCallbacks>>

\* The await of the STARTING dispatch returns or raises; a raise leaves
\* open at once.
OpenStartingFailed_Continue(c) == OpenAfterStarting(c)

OpenStartingFailed(c) ==
    /\ call' = [c EXCEPT !.pc = "done", !.result = "raised"]
    /\ UNCHANGED <<prefixes, isAlive, grabMentionPrefix, subscriptions,
                   serverListener, startedTask>>

OpenResume ==
    /\ call.pc = "starting"
    /\ GatherResumes(gather)
    /\ IF gather.outcome = "raised"
       THEN OpenStartingFailed(call)
       ELSE OpenAfterStarting(call)
    /\ UNCHANGED <<pipelineVars, events, server, accepts, clientCallbacks,
                   gather>>

\* What RESTClient.fetch_my_user does: it returns the user, or raises a
\* rate limit with retry_after <= 30 or > 30, or InternalServerError.
FetchResults == {"user", "retry_soon", "retry_late", "server_error"}

\* One fetch_my_user of the retry loop of Client.open, or the last one
\* after the loop.
\* The failed fetch is tried again: it was made inside the backoff loop,
\* which gives max_retries attempts, and it did not fail with a rate limit
\* of more than 30 seconds.
FetchRetried_LateToo(c, r) == c.retries < MaxRetries

FetchRetried(c, r) == c.retries < MaxRetries /\ r # "retry_late"

OpenFetchMyUser ==
    /\ call.pc = "fetch"
    /\ \E r \in FetchResults :
         LET c == [call EXCEPT !.fetches = @ + 1, !.lastFetch = r]
         IN  IF r = "user"
             THEN OpenRegister(c)
             ELSE /\ call' = IF FetchRetried(c, r)
                             THEN [c EXCEPT !.retries = @ + 1]
                             ELSE [c EXCEPT !.pc = "done",
                                            !.result = "raised"]
                  /\ UNCHANGED <<prefixes, grabMentionPrefix, subscriptions,
                                 serverListener, startedTask>>
    /\ UNCHANGED <<pipelineVars, events, server, isAlive, accepts,
                   clientCallbacks, gather>>

\* Client.close between the CLOSING and the CLOSED dispatch, and the
\* CLOSED dispatch up to its await.
CloseAfterClosing(c) ==
    /\ subscriptions' =
           IF c.listener /\ events
           THEN TryUnsubscribe(
                    TryUnsubscribe(subscriptions, GetEventType(accepts)),
                    "InteractionCreateEvent")
           ELSE subscriptions
    /\ serverListener' = IF c.listener /\ events /\ server THEN "None"
                         ELSE serverListener
    /\ LET g == NewGather(CLOSED, TRUE)
           d == [c EXCEPT
                    !.log = @ \o (IF c.listener /\ events
                                  THEN (IF GetEventType(accepts) # "None"
                                        THEN <<"unsubscribe message">>
                                        ELSE <<>>)
                                       \o <<"unsubscribe interaction">>
                                       \o (IF server
                                           THEN <<"set_listener None">>
                                           ELSE <<>>)
                                  ELSE <<>>)
                              \o <<CLOSED>>]
       IN  /\ gather' = g
           /\ call' = IF g.outcome = "returned"
                      THEN [d EXCEPT !.pc = "done", !.result = "returned"]
                      ELSE [d EXCEPT !.pc = "closed"]

\* The guard of Client.close.
CloseRefused == ~isAlive

\* Client.close(deregister_listener=deregister) up to its first await.
Close(deregister) ==
    /\ NoCallInFlight
    /\ LET c == [CallIdle EXCEPT !.op = "close", !.listener = deregister,
                                 !.pre = Snapshot]
           g == NewGather(CLOSING, TRUE)
       IN  IF CloseRefused
           THEN /\ call' = [c EXCEPT !.pc = "done", !.result = "raised"]
                /\ UNCHANGED <<subscriptions, serverListener, gather>>
           ELSE IF g.outcome = "returned"
                THEN CloseAfterClosing([c EXCEPT !.log = <<CLOSING>>])
                ELSE /\ gather' = g
                     /\ call' = [c EXCEPT !.pc = "closing",
                                          !.log = <<CLOSING>>]
                     /\ UNCHANGED <<subscriptions, serverListener>>
    /\ UNCHANGED <<prefixes, pipelineVars, events, server, isAlive, accepts,
                   grabMentionPrefix, clientCallbacks, startedTask>>

\* The await of the CLOSING dispatch returns.
CloseResumeClosing ==
    /\ call.pc = "closing"
    /\ GatherResumes(gather)
    /\ CloseAfterClosing(call)
    /\ UNCHANGED <<prefixes, pipelineVars, events, server, isAlive, accepts,
                   grabMentionPrefix, clientCallbacks, startedTask>>

\* The await of the CLOSED dispatch returns; close returns.
CloseResumeClosed ==
    /\ call.pc = "closed"
    /\ GatherResumes(gather)
    /\ call' = [call EXCEPT !.pc = "done", !.result = "returned"]
    /\ UNCHANGED <<prefixes, pipelineVars, events, server, isAlive, accepts,
                   grabMentionPrefix, subscriptions, serverListener,
                   clientCallbacks, gather, startedTask>>

\* Client.set_message_accepts; a mode that needs an event manager raises
\* ValueError on a client without one and changes nothing.
SetMessageAccepts(mode) ==
    /\ NoCallInFlight
    /\ ~(GetEventType(mode) # "None" /\ ~events)
    /\ accepts' = mode
    /\ UNCHANGED <<prefixes, pipelineVars, events, server, isAlive,
                   grabMentionPrefix, subscriptions, serverListener,
                   clientCallbacks, call, gather, startedTask>>

\* The task open() created runs Client.dispatch_client_callback(STARTED)
\* up to its await.
StartedTaskRun ==
    /\ startedTask.outcome = "created"
    /\ startedTask' = NewGather(STARTED, FALSE)
    /\ UNCHANGED <<prefixes, pipelineVars, events, server, isAlive, accepts,
                   grabMentionPrefix, subscriptions, serverListener,
                   clientCallbacks, call, gather>>

\* A callback task of the STARTED dispatch runs.
StartedCallbackStep ==
    /\ startedTask.outcome # "created"
    /\ \E cb \in Runnable(startedTask) :
           \E b \in Behaviours(startedTask.tasks[cb]) :
               startedTask' = GatherAfter(startedTask, cb, b)
    /\ UNCHANGED <<prefixes, pipelineVars, events, server, isAlive, accepts,
                   grabMentionPrefix, subscriptions, serverListener,
                   clientCallbacks, call, gather>>

\* The call has returned or raised; its caller goes on.  What its
\* leftover callback tasks still do is no longer observed.
CallDiscard ==
    /\ call.pc = "done"
    /\ call' = CallIdle
    /\ gather' = NoGather
    /\ UNCHANGED <<prefixes, pipelineVars, events, server, isAlive, accepts,
                   grabMentionPrefix, subscriptions, serverListener,
                   clientCallbacks, startedTask>>

\* How many finished lifecycle calls are remembered.
HistoryLen == 2

\* The call has returned or raised and its caller goes on to the next
\* one, as `async with client:` entered again does, or the event manager
\* that delivers StoppingEvent and then StartingEvent to
\* _on_stopping_event and _on_starting_event: what the call was and how
\* it ended is remembered.
CallSequenced ==
    /\ call.pc = "done"
    /\ call' = CallIdle
    /\ gather' = NoGather
    /\ history' = LET h == Append(history, <<call.op, call.result>>)
                  IN  IF Len(h) > HistoryLen THEN Tail(h) ELSE h
    /\ UNCHANGED <<prefixes, prefixGetter, checks, components, autoDefer,
                   interactionNotFound, componentVars, msg, ia, execution,
                   bindVars, clientHooks, pipes, load, admin, cachedApplicationId,
                   events, server,
                   isAlive, accepts, grabMentionPrefix, subscriptions,
                   serverListener, clientCallbacks, startedTask>>

\* Client.__init__ with any of its event manager, interaction server and
\* mention_prefix arguments.
InitLifecycle ==
    /\ prefixes = {}
    /\ prefixGetter = FALSE
    /\ checks = {}
    /\ components = {}
    /\ autoDefer = TRUE
    /\ interactionNotFound = TRUE
    /\ started = [c \in Components |-> FALSE]
    /\ commands = [c \in Components |-> CommandPool]
    /\ compChecks = [c \in Components |-> IF c = 1 THEN {} ELSE CheckPool]
    /\ msg = MsgIdle
    /\ ia = IaIdle
    /\ \E e \in BOOLEAN, s \in BOOLEAN, m \in BOOLEAN : LifeInit(e, s, m)
    /\ execution = ExecutionIdle
    /\ BindInit({}, NumComponents)
    /\ AuxInit

\* The accepts modes and the lifecycle callbacks the application sets.
LifecycleModes == {"ALL", "DM_ONLY", "NONE"}
LifecycleCallbacks ==
    {<<STARTING, "cb1">>, <<STARTING, "cb2">>, <<STARTED, "cb1">>,
     <<CLOSING, "cb1">>, <<CLOSED, "cb1">>}

NextLifecycle ==
    \/ \E r \in BOOLEAN : Open(r)
    \/ OpenResume
    \/ OpenFetchMyUser
    \/ \E d \in BOOLEAN : Close(d)
    \/ CloseResumeClosing
    \/ CloseResumeClosed
    \/ \E mode \in LifecycleModes : SetMessageAccepts(mode)
    \/ \E r \in LifecycleCallbacks : AddClientCallback(r[1], r[2])
    \/ \E r \in LifecycleCallbacks : RemoveClientCallback(r[1], r[2])
    \/ CallbackStep
    \/ StartedTaskRun
    \/ StartedCallbackStep
    \/ CallDiscard

SpecLifecycle == InitLifecycle /\ [][NextLifecycle]_vars

\* A client that is opened and closed again and again, by __aenter__ and
\* __aexit__ or by the event manager's StartingEvent and StoppingEvent.
NextRestart ==
    \/ \E r \in BOOLEAN : Open(r)
    \/ OpenFetchMyUser
    \/ \E d \in BOOLEAN : Close(d)
    \/ StartedTaskRun
    \/ CallSequenced

SpecRestart == InitLifecycle /\ [][NextRestart]_vars

\* The registry and the dispatch on their own: the application registers,
\* removes and dispatches callbacks of its own event names.
NextCallbacks ==
    \/ \E n \in RegisterNames, cb \in CallbackPool : AddClientCallback(n, cb)
    \/ \E n \in DispatchNames, cb \in CallbackPool : RemoveClientCallback(n, cb)
    \/ \E n \in DispatchNames, sup \in BOOLEAN : DispatchClientCallback(n, sup)
    \/ DispatchResume
    \/ CallbackStep
    \/ CallDiscard

SpecCallbacks == Init /\ [][NextCallbacks]_vars

\* =========================================== Component.execute on its own
\* Component.execute(ctx, hooks=hooks) called on a component, whatever its
\* state, with any content and any hooks argument.  The call runs from
\* one await to the next; between them the component can be closed,
\* opened and given other checks.
Execute(c) ==
    /\ execution = ExecutionIdle
    /\ \E content \in Strings(MaxContentLen), hooks \in HookSets :
           LET ctx == [content |-> content, triggering_name |-> NoCommand,
                       command |-> NoCommand]
           IN  execution' =
                   [ExecutionIdle EXCEPT
                       !.component = c, !.started = started[c],
                       !.ctx = ctx, !.hooks = hooks,
                       !.r = ExecuteEnter(c, ctx, hooks)]
    /\ UNCHANGED <<clientVars, componentVars, msg, ia, lifeVars, bindVars,
                   auxVars>>

\* `await utilities.gather_checks(...)` returns what the checks gave.
ExecuteChecks ==
    /\ execution.r.pc = "checks"
    /\ \E results \in [execution.r.checked -> BOOLEAN] :
           execution' = [execution EXCEPT
                            !.results = results,
                            !.r = ExecuteAfterChecks(execution.component, @,
                                                     results)]
    /\ UNCHANGED <<clientVars, componentVars, msg, ia, lifeVars, bindVars,
                   auxVars>>

\* The commands' check_context generators have been run up to the first
\* candidate, or to their end.
ExecuteFind ==
    /\ execution.r.pc = "find"
    /\ LET c == execution.component
           content == execution.ctx.content
       IN  \E cand \in YieldedFirst(c, content, execution.results) :
           \E asked \in AskedSets(c, content, cand) :
              execution' = [execution EXCEPT
                               !.candidates =
                                   CheckContext(c, content, execution.results),
                               !.r = ExecuteAfterFind(c, @, execution.results,
                                                      cand, asked)]
    /\ UNCHANGED <<clientVars, componentVars, msg, ia, lifeVars, bindVars,
                   auxVars>>

\* The command returns or raises.
ExecuteCommand ==
    /\ execution.r.pc = "command"
    /\ \E outcome \in Outcomes :
           execution' = [execution EXCEPT
                            !.outcome = outcome,
                            !.r = ExecuteAfterCommand(@, outcome)]
    /\ UNCHANGED <<clientVars, componentVars, msg, ia, lifeVars, bindVars,
                   auxVars>>

\* The caller has the result; the call is no longer observed.
ExecuteDiscard ==
    /\ execution # ExecutionIdle
    /\ execution.r.pc = "done"
    /\ execution' = ExecutionIdle
    /\ UNCHANGED <<clientVars, componentVars, msg, ia, lifeVars, bindVars,
                   auxVars>>

\* Component.add_check
ComponentAddCheck(c, k) ==
    /\ compChecks' = [compChecks EXCEPT ![c] = @ \cup {k}]
    /\ UNCHANGED <<clientVars, started, commands, msg, ia, lifeVars,
                   execution, bindVars, auxVars>>

\* Component.with_check: add_check, and the check is returned
ComponentWithCheck(c, k) == ComponentAddCheck(c, k)

\* Component.remove_check: set.remove raises KeyError for an absent check
ComponentRemoveCheck(c, k) ==
    /\ k \in compChecks[c]
    /\ compChecks' = [compChecks EXCEPT ![c] = @ \ {k}]
    /\ UNCHANGED <<clientVars, started, commands, msg, ia, lifeVars,
                   execution, bindVars, auxVars>>

NextComponent ==
    \/ \E c \in Components : ComponentOpen(c)
    \/ \E c \in Components : ComponentClose(c)
    \/ \E c \in Components, k \in CheckPool : ComponentAddCheck(c, k)
    \/ \E c \in Components, k \in CheckPool : ComponentWithCheck(c, k)
    \/ \E c \in Components, k \in CheckPool : ComponentRemoveCheck(c, k)
    \/ \E c \in Components : Execute(c)
    \/ ExecuteChecks
    \/ ExecuteFind
    \/ ExecuteCommand
    \/ ExecuteDiscard

SpecComponent == Init /\ [][NextComponent]_vars

\* ------------------------------------------------------- module loading
\* `for _, member in inspect.getmembers(module): if isinstance(member,
\* _LoadableDescriptor): member(self)`: the loaders of module i are called
\* with the client, in the order of their names.
RECURSIVE InvokeLoaders(_, _, _, _)
InvokeLoaders(invoked, i, loaders, j) ==
    IF j > Len(LoaderNames) THEN invoked
    ELSE InvokeLoaders(IF j \in loaders
                       THEN Append(invoked, <<i, LoaderNames[j]>>)
                       ELSE invoked,
                       i, loaders, j + 1)

\* The branch of load_modules for a module that is not a str ends in
\* `raise RuntimeError(...)`, whether a loader was found and the module
\* executed or not.
PathBranchRaises(kind) == TRUE

\* Client.load_modules from module i on: r is what was done so far.
RECURSIVE LoadModulesFrom(_, _, _)
LoadModulesFrom(mods, i, r) ==
    IF i > Len(mods) THEN [r EXCEPT !.result = "returned"]
    ELSE IF mods[i].kind = "name"
    THEN LoadModulesFrom(mods, i + 1,
             [r EXCEPT !.executed = @ \cup {i},
                       !.invoked = InvokeLoaders(@, i, mods[i].loaders, 1)])
    ELSE LET r1 == IF mods[i].kind = "path"
                   THEN [r EXCEPT !.executed = @ \cup {i}] ELSE r
         IN  IF PathBranchRaises(mods[i].kind)
             THEN [r1 EXCEPT !.result = "raised"]
             ELSE LoadModulesFrom(mods, i + 1,
                      [r1 EXCEPT !.invoked =
                                    InvokeLoaders(@, i, mods[i].loaders, 1)])

\* Client.load_modules(*modules)
LoadModules ==
    /\ load = LoadIdle
    /\ \E mods \in SeqsOver(Modules, MaxModules) :
          load' = LoadModulesFrom(mods, 1, [LoadIdle EXCEPT !.modules = mods])
    /\ UNCHANGED <<clientVars, componentVars, msg, ia, lifeVars, execution,
                   bindVars, clientHooks, pipes, history, admin,
                   cachedApplicationId>>

\* The caller has the result; the call is no longer observed.
LoadDiscard ==
    /\ load # LoadIdle
    /\ load' = LoadIdle
    /\ UNCHANGED <<clientVars, componentVars, msg, ia, lifeVars, execution,
                   bindVars, clientHooks, pipes, history, admin,
                   cachedApplicationId>>

NextLoad == LoadModules \/ LoadDiscard

SpecLoad == Init /\ [][NextLoad]_vars

\* How often the loader named n of module i was called.
TimesInvoked(i, n) ==
    Cardinality({k \in 1..Len(load.invoked) : load.invoked[k] = <<i, n>>})

\* ------------------------------------------- administrative calls
\* What an administrative call observed on its own leaves alone.
adminFrame ==
    <<prefixes, prefixGetter, autoDefer, interactionNotFound, componentVars,
      msg, ia, lifeVars, execution, components2, listeners, boundComponent,
      clientHooks, pipes, load, history, cachedApplicationId>>

\* The client as an administrative call finds it.
AdminSnapshot ==
    [checks |-> checks, components |-> components,
     boundClient |-> boundClient]

\* The check set_human_only adds: _check_human wrapped in an
\* InjectableCheck, which hashes and compares as the callback it wraps.
HumanCheck == "_check_human"

\* Client.is_human_only
IsHumanOnly == HumanCheck \in checks

\* set.remove of an absent element raises KeyError; set_human_only
\* handles ValueError.
SetRemoveError == "KeyError"
HumanOnlyHandles == {"ValueError"}

\* Client.set_human_only(value)
SetHumanOnly(value) ==
    /\ NoEventInFlight
    /\ admin.op = "none"
    /\ LET a == [AdminIdle EXCEPT !.op = "set_human_only", !.value = value,
                                  !.pre = AdminSnapshot]
       IN  IF value
           THEN /\ checks' = checks \cup {HumanCheck}
                /\ admin' = [a EXCEPT !.result = "returned"]
           ELSE IF HumanCheck \in checks
           THEN /\ checks' = checks \ {HumanCheck}
                /\ admin' = [a EXCEPT !.result = "returned"]
           ELSE /\ checks' = checks
                /\ admin' = [a EXCEPT !.result =
                                 IF SetRemoveError \in HumanOnlyHandles
                                 THEN "returned" ELSE "raised"]
    /\ UNCHANGED <<adminFrame, components, boundClient, dispatcher>>

\* Client.remove_component reaches unbind_client only when set.remove
\* found the component.
UnbindReached_Always(c, cs) == TRUE

UnbindReached(c, cs) == c \in cs

\* Client.remove_component(component), the whole call: set.remove, which
\* raises KeyError for a component that is not in the set, and then
\* component.unbind_client(self).
RemoveComponentAttempt(c) ==
    /\ NoEventInFlight
    /\ admin.op = "none"
    /\ components' = components \ {c}
    /\ LET a == [AdminIdle EXCEPT !.op = "remove_component",
                                  !.component = c, !.pre = AdminSnapshot]
       IN  IF UnbindReached(c, components)
           THEN /\ UnbindClient(c, 1)
                /\ admin' = [a EXCEPT !.result = "returned",
                                      !.unbindCalled = TRUE,
                                      !.atUnbind = components']
           ELSE /\ admin' = [a EXCEPT !.result = "raised"]
                /\ UNCHANGED <<boundClient, dispatcher>>
    /\ UNCHANGED <<adminFrame, checks>>

\* The slash commands a component can hold: a name, and whether the
\* command is global.  One of the names is held by global commands only.
SlashCommands ==
    [name : SlashNames, isGlobal : BOOLEAN]
        \ {[name |-> <<"!">>, isGlobal |-> FALSE]}

\* The orders the members of a set can be iterated in.
RECURSIVE Orders(_)
Orders(s) ==
    IF s = {} THEN {<<>>}
    ELSE UNION {{<<x>> \o o : o \in Orders(s \ {x})} : x \in s}

\* component.slash_commands: the commands a component holds, in the
\* order it gives them.
SlashLists == UNION {Orders(held) : held \in SUBSET SlashCommands}

\* itertools.chain.from_iterable(component.slash_commands for component in
\* self._components): the commands of the components, each with the
\* component that holds it.  order is the order in which the set
\* self._components is iterated, any of them.
RECURSIVE ChainOne(_, _)
ChainOne(c, cmds) ==
    IF cmds = <<>> THEN <<>>
    ELSE <<[component |-> c, name |-> Head(cmds).name,
            isGlobal |-> Head(cmds).isGlobal]>> \o ChainOne(c, Tail(cmds))

RECURSIVE ChainCommands(_, _)
ChainCommands(order, slash) ==
    IF order = <<>> THEN <<>>
    ELSE ChainOne(Head(order), slash[Head(order)])
         \o ChainCommands(Tail(order), slash)

\* `if not command.is_global: continue`, and `if command.is_global:` of
\* the second loop.
IsSent(cmd) == cmd.isGlobal

\* The first loop of set_global_commands from command i of the chain on:
\* the names found, the names found twice and the builders.
RECURSIVE ScanCommands(_, _, _)
ScanCommands(chain, i, acc) ==
    IF i > Len(chain) THEN acc
    ELSE IF ~IsSent(chain[i]) THEN ScanCommands(chain, i + 1, acc)
    ELSE ScanCommands(chain, i + 1,
             [found |-> acc.found \cup {chain[i].name},
              conflicts |-> IF chain[i].name \in acc.found
                            THEN acc.conflicts \cup {chain[i].name}
                            ELSE acc.conflicts,
              builders |-> Append(acc.builders, chain[i].name)])

\* The command the API returns for the builder of a name.
ApiCommand(name) == <<"api", name>>

\* The second loop from command i of the chain on:
\* command.set_tracked_command(names_to_commands[command.name]), where
\* names_to_commands has the names that were sent and the lookup of any
\* other raises KeyError; acc has the commands tracked so far.
RECURSIVE TrackCommands(_, _, _, _)
TrackCommands(chain, i, names, acc) ==
    IF i > Len(chain) THEN [error |-> "none", tracked |-> acc]
    ELSE IF ~IsSent(chain[i]) THEN TrackCommands(chain, i + 1, names, acc)
    ELSE IF chain[i].name \notin names
    THEN [error |-> "KeyError", tracked |-> acc]
    ELSE TrackCommands(chain, i + 1, names,
             acc \cup {<<chain[i].component, chain[i].name,
                         chain[i].isGlobal, ApiCommand(chain[i].name)>>})

\* set_global_commands from its first loop to `await
\* self._rest.set_application_commands(application, builders, ...)`, with
\* self._components iterated in order: it raises for names found twice,
\* or is suspended in the REST call.
SetGlobalCommandsScan(a, order) ==
    LET chain == ChainCommands(order, a.slash)
        scan == ScanCommands(chain, 1, [found |-> {}, conflicts |-> {},
                                        builders |-> <<>>])
        b == [a EXCEPT !.scanned = components]
    IN  IF scan.conflicts # {}
        THEN [b EXCEPT !.at = "none", !.result = "raised",
                       !.error = "RuntimeError"]
        ELSE [b EXCEPT !.at = "rest", !.restCalls = 1,
                       !.sent = scan.builders]

\* Client.set_global_commands(application) is called, with the slash
\* commands the components hold: `application = self._cached_application_id
\* or await self.fetch_rest_application_id()` when no application is given
\* suspends it unless the id is cached.
SetGlobalCommands ==
    /\ NoEventInFlight
    /\ admin.op = "none"
    /\ \E application \in BOOLEAN, held \in [components -> SlashLists] :
         LET a == [AdminIdle EXCEPT
                      !.op = "set_global_commands",
                      !.value = application,
                      !.pre = AdminSnapshot,
                      !.slash = [c \in Components |->
                                   IF c \in components THEN held[c]
                                   ELSE <<>>],
                      !.known = components]
         IN  IF ~application /\ ~cachedApplicationId
             THEN admin' = [a EXCEPT !.at = "fetch"]
             ELSE \E order \in Orders(components) :
                     admin' = SetGlobalCommandsScan(a, order)
    /\ UNCHANGED <<adminFrame, checks, components, boundClient, dispatcher>>

\* fetch_rest_application_id has fetched the application and caches its
\* id; set_global_commands goes on to its first loop.
SetGlobalCommandsFetched ==
    /\ admin.op = "set_global_commands"
    /\ admin.at = "fetch"
    /\ cachedApplicationId' = TRUE
    /\ \E order \in Orders(components) :
          admin' = SetGlobalCommandsScan(admin, order)
    /\ UNCHANGED <<prefixes, prefixGetter, autoDefer, interactionNotFound,
                   componentVars, msg, ia, lifeVars, execution, bindVars,
                   clientHooks, pipes, load, history, checks, components>>

\* The REST call has returned the commands: the second loop walks
\* self._components as it is now, and the call returns or raises.
SetGlobalCommandsSent ==
    /\ admin.op = "set_global_commands"
    /\ admin.at = "rest"
    /\ \E order \in Orders(components) :
          LET t == TrackCommands(ChainCommands(order, admin.slash), 1,
                                 {admin.sent[i] : i \in 1..Len(admin.sent)},
                                 {})
          IN  admin' = [admin EXCEPT
                           !.at = "none",
                           !.walked = components,
                           !.tracked = t.tracked,
                           !.error = t.error,
                           !.result = IF t.error = "none" THEN "returned"
                                      ELSE "raised"]
    /\ UNCHANGED <<adminFrame, checks, components, boundClient, dispatcher>>

\* set_global_commands is suspended in one of its awaits.
GlobalCommandsAwaited ==
    admin.op = "set_global_commands" /\ admin.at # "none"

\* Client.add_component, called by another task while set_global_commands
\* is suspended; the component comes with the slash commands it holds.
AddComponentDuringCall(c) ==
    /\ NoEventInFlight
    /\ GlobalCommandsAwaited
    /\ AddComponentCall(c)
    /\ \E held \in (IF c \in admin.known THEN {admin.slash[c]}
                     ELSE SlashLists) :
          admin' = [admin EXCEPT !.slash[c] = held, !.known = @ \cup {c}]
    /\ UNCHANGED <<msg, ia>>

\* Client.remove_component, called by another task while
\* set_global_commands is suspended.
RemoveComponentDuringCall(c) ==
    /\ NoEventInFlight
    /\ GlobalCommandsAwaited
    /\ RemoveComponentCall(c)
    /\ UNCHANGED <<msg, ia>>

\* The caller has the result; the call is no longer observed.
AdminDiscard ==
    /\ admin.op # "none"
    /\ admin.result # "none"
    /\ admin' = AdminIdle
    /\ UNCHANGED <<adminFrame, checks, components, boundClient, dispatcher>>

\* The application's other calls, made between the observed ones.
AdminAddComponent(c) == admin.op = "none" /\ AddComponent(c)
AdminAddComponent2(c) == admin.op = "none" /\ AddComponent2(c)
AdminRemoveComponent2(c) == admin.op = "none" /\ RemoveComponent2(c)
AdminAddCheck(k) == admin.op = "none" /\ AddCheck(k)
AdminRemoveCheck(k) == admin.op = "none" /\ RemoveCheck(k)

NextAdmin ==
    \/ \E v \in BOOLEAN : SetHumanOnly(v)
    \/ \E c \in Components : RemoveComponentAttempt(c)
    \/ AdminDiscard
    \/ \E c \in Components : AdminAddComponent(c)
    \/ \E c \in Components : AdminAddComponent2(c)
    \/ \E c \in Components : AdminRemoveComponent2(c)
    \/ \E k \in CheckPool : AdminAddCheck(k)
    \/ \E k \in CheckPool : AdminRemoveCheck(k)

SpecAdmin == Init /\ [][NextAdmin]_vars

\* The application adds its components and declares their slash commands.
NextGlobalCommands ==
    \/ \E c \in Components : AdminAddComponent(c)
    \/ SetGlobalCommands
    \/ SetGlobalCommandsFetched
    \/ SetGlobalCommandsSent
    \/ \E c \in Components : AddComponentDuringCall(c)
    \/ \E c \in Components : RemoveComponentDuringCall(c)
    \/ AdminDiscard

SpecGlobalCommands == Init /\ [][NextGlobalCommands]_vars

\* ------------------------------------------------ component listeners
NextListeners ==
    \/ \E c \in Components, l \in ListenerPool : AddListener(c, l)
    \/ \E c \in Components, l \in ListenerPool : RemoveListener(c, l)
    \/ \E c \in Components : AddComponent(c)
    \/ \E c \in Components : RemoveComponent(c)
    \/ \E c \in Components : ComponentOpen(c)
    \/ \E c \in Components : ComponentClose(c)

SpecListeners == Init /\ [][NextListeners]_vars

\* The dispatchers a listener of the component c is subscribed to.
SubscribedTo(c, l) == {k \in ClientIds : dispatcher[k][c][l] > 0}

\* --------------------------------------- message events side by side
\* on_message_create_event run for several events at once: each call of
\* the handler is a task of its own, the tasks interleave at the awaits.
\* The steps are those of the single dispatch, taken on the record of the
\* call that makes them.

\* The objects a call of the handler works on, its context
\* (`ctx = context.MessageContext(...)`) and its hooks set
\* (`hooks = {...}`), are made by that call: call i has frame i.
FrameOf_Shared(i) == 1

FrameOf(i) == i

\* The dispatch record as call i sees it: its own position, and the
\* context and hooks of its frame.
PipeView(i) ==
    LET own == pipes[i].m
        frame == pipes[FrameOf(i)].m
    IN  [own EXCEPT !.content = frame.content,
                    !.prefix = frame.prefix,
                    !.triggering_name = frame.triggering_name,
                    !.command = frame.command,
                    !.hooks = frame.hooks]

\* Call i leaves the record n: its position goes to its own record, the
\* context and hooks to its frame.
PipeStore(i, n) ==
    [k \in Pipes |->
        IF k = i
        THEN [pipes[k] EXCEPT
                !.m = n,
                !.overlapped = @ \/ \E j \in Pipes \ {i} :
                                       pipes[j].m.pc = "command"]
        ELSE IF k = FrameOf(i)
        THEN [pipes[k] EXCEPT !.m.content = n.content,
                              !.m.prefix = n.prefix,
                              !.m.triggering_name = n.triggering_name,
                              !.m.command = n.command,
                              !.m.hooks = n.hooks]
        ELSE pipes[k]]

\* The message contents of the events handled side by side.
PipeContents ==
    {<<"!", "p">>, <<"!", " ", "p">>, <<"!", "!">>, <<"p">>, NoContent}

\* The records the step after m can leave.
MsgStepNext(m) ==
    CASE m.pc = "check" -> MsgCheckNext(m)
      [] m.pc = "execute" -> MsgExecuteChecksNext(m)
      [] m.pc = "command" -> MsgExecuteCommandNext(m)
      [] m.pc = "respond" -> MsgRespondNext(m)
      [] m.pc = "after_loop" -> MsgNotFoundNext(m)
      [] OTHER -> {}

\* `if event.message.content is None: return` comes before the context
\* and _check_prefix, which awaits the getter when there is one.
GetterCalled(content) == content # NoContent /\ prefixGetter

\* The handler is called for an event whose content is one of contents;
\* it runs up to its first await.
PipeReceiveFrom(i, contents) ==
    /\ pipes[i].m.pc = "idle"
    /\ \E content \in contents :
       \E n \in MsgEnter(content) :
          pipes' = [PipeStore(i, n) EXCEPT
                      ![i].event = content,
                      ![i].getterCalled = GetterCalled(content)]
    /\ UNCHANGED <<clientVars, componentVars, msg, ia, lifeVars, execution,
                   bindVars, clientHooks, miscVars>>

PipeReceive(i) == PipeReceiveFrom(i, PipeContents)

\* The getter call i awaits returns one of gots.
PipeGetterFrom(i, gots) ==
    /\ pipes[i].m.pc = "getter"
    /\ \E got \in gots :
       \E n \in MsgResolve(PipeView(i).content, got) :
          pipes' = [PipeStore(i, n) EXCEPT ![i].got = got]
    /\ UNCHANGED <<clientVars, componentVars, msg, ia, lifeVars, execution,
                   bindVars, clientHooks, miscVars>>

\* The call goes on from one await to the next.
PipeStep(i) ==
    /\ \E n \in MsgStepNext(PipeView(i)) : pipes' = PipeStore(i, n)
    /\ UNCHANGED <<clientVars, componentVars, msg, ia, lifeVars, execution,
                   bindVars, clientHooks, miscVars>>

\* The call has returned and its record is dropped.
PipeDiscard(i) ==
    /\ pipes[i].m.pc = "done"
    /\ pipes' = [pipes EXCEPT ![i] = PipeIdle]
    /\ UNCHANGED <<clientVars, componentVars, msg, ia, lifeVars, execution,
                   bindVars, clientHooks, miscVars>>

\* The hooks set_hooks and set_message_hooks can have given the client.
ClientHookPool == {"client", "message"}

\* A client with a prefix and a check, with or without hooks, whose
\* components are started or not; nothing changes its registry.
InitConcurrent ==
    /\ prefixes = {<<"!">>}
    /\ prefixGetter = FALSE
    /\ checks = CheckPool
    /\ components = Components
    /\ autoDefer = TRUE
    /\ interactionNotFound = TRUE
    /\ started \in [Components -> BOOLEAN]
    /\ commands = [c \in Components |-> CommandPool]
    /\ compChecks = [c \in Components |-> IF c = 1 THEN {} ELSE CheckPool]
    /\ msg = MsgIdle
    /\ ia = IaIdle
    /\ LifeInit(TRUE, TRUE, FALSE)
    /\ execution = ExecutionIdle
    /\ BindInit(Components, NumComponents)
    /\ clientHooks \in {{}, ClientHookPool}
    /\ pipes = [i \in Pipes |-> PipeIdle]
    /\ MiscInit

NextConcurrent ==
    \/ \E i \in Pipes : PipeReceive(i)
    \/ \E i \in Pipes : PipeStep(i)
    \/ \E i \in Pipes : PipeDiscard(i)

SpecConcurrent == InitConcurrent /\ [][NextConcurrent]_vars

\* What a message event has come to: the components that executed a
\* command, what its context holds, the hooks the command was passed,
\* the responses sent and the not-found callbacks dispatched.
MsgOutcome(m) ==
    [executed |-> m.executed, content |-> m.content, prefix |-> m.prefix,
     triggering_name |-> m.triggering_name, command |-> m.command,
     used |-> m.used, responses |-> m.responses, notFound |-> m.notFound]

\* Component.execute of c can return False for this content: c is not
\* started, a check of c can fail, or no command of c matches.
CanDecline(c, content) ==
    \/ ExecuteRefused(c)
    \/ compChecks[c] # {}
    \/ \A n \in commands[c] : ~CommandMatches(content, n)

\* on_message_create_event read from top to bottom for an event that is
\* handled with nothing else running: what the event comes to once the
\* prefix matched and the global checks passed.  The loop ends at the
\* first component that finds a command, whichever the set yields
\* before it having returned False; what the command does decides the
\* rest.
LoopOutcomes(base) ==
    (IF \A c \in components : CanDecline(c, base.content)
     THEN {[base EXCEPT !.notFound = 1]} ELSE {})
    \cup {[base EXCEPT
              !.executed = <<c>>,
              !.content = ExecuteStrip(base.content, n),
              !.triggering_name = n,
              !.command = n,
              !.used = HooksUsed(c, ClientMessageHooks),
              !.responses = IF outcome = "respond" THEN <<"pong">>
                            ELSE IF outcome \in ErrorMessages
                            THEN <<outcome>> ELSE <<>>,
              !.notFound = IF outcome \in ErrorMessages THEN 0 ELSE 1]
          : <<c, n, outcome>> \in
              {t \in components \X CommandPool \X Outcomes :
                  /\ ~ExecuteRefused(t[1])
                  /\ t[2] \in commands[t[1]]
                  /\ CommandMatches(base.content, t[2])}}

\* What an event with this content can come to when it is handled with
\* nothing else running and the prefix getter, if called, returns got.
AloneOutcomes(content, got) ==
    IF content = NoContent THEN {MsgOutcome(MsgIdle)}
    ELSE UNION
        {IF prefix = NoPrefix
         THEN {[MsgOutcome(MsgIdle) EXCEPT !.content = content]}
         ELSE LET base == [MsgOutcome(MsgIdle) EXCEPT
                              !.content = StripPrefix(content, prefix),
                              !.prefix = prefix]
              IN  (IF checks # {} THEN {base} ELSE {})
                  \cup LoopOutcomes(base)
         : prefix \in CheckPrefix(content, got)}

\* --------------------------------------------------- prefix resolution
\* The prefixes a client can have been given or its getter can return:
\* one that is the beginning of another, one that begins with
\* whitespace, and the empty string.
WidePrefixes == {<<"!">>, <<"!", "!">>, <<" ", "!">>, <<>>}

\* What the prefix getter of such a client can return.
WideGetterReturns == SeqsOver(WidePrefixes, MaxGetterLen)

\* A call of the message handler is suspended in the prefix getter.
GetterAwaited == \E i \in Pipes : pipes[i].m.pc = "getter"

\* Client.add_prefix, called by another task while the handler awaits
\* the getter
AddPrefixInFlight(p) ==
    /\ GetterAwaited
    /\ prefixes' = prefixes \cup {p}
    /\ UNCHANGED <<otherVars, prefixGetter, checks, components, autoDefer,
                   interactionNotFound, componentVars, msg, ia>>

\* Client.remove_prefix, called while the handler awaits the getter
RemovePrefixInFlight(p) ==
    /\ GetterAwaited
    /\ p \in prefixes
    /\ prefixes' = prefixes \ {p}
    /\ UNCHANGED <<otherVars, prefixGetter, checks, components, autoDefer,
                   interactionNotFound, componentVars, msg, ia>>

\* Client.set_prefix_getter, called while the handler awaits the getter
SetPrefixGetterInFlight(g) ==
    /\ GetterAwaited
    /\ prefixGetter' = g
    /\ UNCHANGED <<otherVars, prefixes, checks, components, autoDefer,
                   interactionNotFound, componentVars, msg, ia>>

\* A client with any of these prefixes, with or without a prefix getter,
\* with a check and no component.
InitPrefix ==
    /\ prefixes \in SUBSET WidePrefixes
    /\ prefixGetter \in BOOLEAN
    /\ checks = CheckPool
    /\ components = {}
    /\ autoDefer = TRUE
    /\ interactionNotFound = TRUE
    /\ started = [c \in Components |-> FALSE]
    /\ commands = [c \in Components |-> CommandPool]
    /\ compChecks = [c \in Components |-> IF c = 1 THEN {} ELSE CheckPool]
    /\ msg = MsgIdle
    /\ ia = IaIdle
    /\ LifeInit(TRUE, TRUE, FALSE)
    /\ execution = ExecutionIdle
    /\ BindInit({}, NumComponents)
    /\ AuxInit

\* A message event of any content arrives.
PrefixReceive == PipeReceiveFrom(1, Strings(MaxContentLen) \cup {NoContent})

\* The getter returns.
PrefixGetter == PipeGetterFrom(1, WideGetterReturns)

NextPrefix ==
    \/ PrefixReceive
    \/ PrefixGetter
    \/ \E p \in WidePrefixes : AddPrefixInFlight(p)
    \/ \E p \in WidePrefixes : RemovePrefixInFlight(p)
    \/ \E g \in BOOLEAN : SetPrefixGetterInFlight(g)
    \/ PipeStep(1)
    \/ PipeDiscard(1)

SpecPrefix == InitPrefix /\ [][NextPrefix]_vars

\* The event handled in the prefix specification and its record.
Ev == pipes[1]

\* The positions at which a returned sequence of prefixes matches.
GetterHits(content, got) ==
    {i \in 1..Len(got) : StartsWith(content, got[i])}

\* ------------------------------------- registry changes during dispatch
\* A client with a prefix whose components are all started.
InitMidFlight ==
    /\ prefixes = {<<"!">>}
    /\ prefixGetter = FALSE
    /\ checks = {}
    /\ components = {}
    /\ autoDefer = TRUE
    /\ interactionNotFound = TRUE
    /\ started = [c \in Components |-> TRUE]
    /\ commands = [c \in Components |-> CommandPool]
    /\ compChecks = [c \in Components |-> IF c = 1 THEN {} ELSE CheckPool]
    /\ msg = MsgIdle
    /\ ia = IaIdle
    /\ LifeInit(TRUE, TRUE, FALSE)
    /\ execution = ExecutionIdle
    /\ BindInit({}, NumComponents)
    /\ AuxInit

\* The steps of a message event on a client that has no prefix getter.
MessageNoGetter ==
    MsgReceive \/ MsgCheck \/ MsgExecuteChecks \/ MsgExecuteCommand
    \/ MsgRespond \/ MsgNotFound \/ MsgDiscard

NextMidFlight ==
    \/ MessageNoGetter
    \/ Interaction
    \/ \E c \in Components : AddComponent(c)
    \/ \E c \in Components : RemoveComponent(c)
    \/ \E c \in Components : AddComponentInFlight(c)
    \/ \E c \in Components : RemoveComponentInFlight(c)

SpecMidFlight == InitMidFlight /\ [][NextMidFlight]_vars

\* ------------------------------------------ hooks set during dispatch
\* A client with a prefix, a check and started components, and no hooks
\* yet.
InitHooks ==
    /\ prefixes = {<<"!">>}
    /\ prefixGetter = FALSE
    /\ checks = CheckPool
    /\ components = Components
    /\ autoDefer = TRUE
    /\ interactionNotFound = TRUE
    /\ started = [c \in Components |-> TRUE]
    /\ commands = [c \in Components |-> CommandPool]
    /\ compChecks = [c \in Components |-> IF c = 1 THEN {} ELSE CheckPool]
    /\ msg = MsgIdle
    /\ ia = IaIdle
    /\ LifeInit(TRUE, TRUE, FALSE)
    /\ execution = ExecutionIdle
    /\ BindInit(Components, NumComponents)
    /\ AuxInit

\* set_hooks, set_message_hooks and set_slash_hooks are called at any
\* time: between events and while the handler of one is suspended.
NextHooks ==
    \/ MessageNoGetter
    \/ Interaction
    \/ \E h \in BOOLEAN : SetHooks(h)
    \/ \E h \in BOOLEAN : SetMessageHooks(h)
    \/ \E h \in BOOLEAN : SetSlashHooks(h)

SpecHooks == InitHooks /\ [][NextHooks]_vars

\* ----------------------------------------------------------- ownership
\* Nothing has been added to anything yet.
InitOwnership ==
    /\ prefixes = {}
    /\ prefixGetter = FALSE
    /\ checks = {}
    /\ components = {}
    /\ autoDefer = TRUE
    /\ interactionNotFound = TRUE
    /\ started = [c \in Components |-> FALSE]
    /\ commands = [c \in Components |-> {}]
    /\ compChecks = [c \in Components |-> IF c = 1 THEN {} ELSE CheckPool]
    /\ msg = MsgIdle
    /\ ia = IaIdle
    /\ LifeInit(TRUE, TRUE, FALSE)
    /\ execution = ExecutionIdle
    /\ BindInit({}, 0)
    /\ AuxInit

NextOwnership ==
    \/ \E c \in Components : AddComponent(c)
    \/ \E c \in Components : RemoveComponent(c)
    \/ \E c \in Components : AddComponent2(c)
    \/ \E c \in Components : RemoveComponent2(c)
    \/ \E c \in Components, n \in CommandPool : AddCommand(c, n)
    \/ \E c \in Components, n \in CommandPool : RemoveCommand(c, n)

SpecOwnership == InitOwnership /\ [][NextOwnership]_vars

\* The clients whose component set holds c, the components whose command
\* set holds n.
OwnersOf(c) ==
    {k \in ClientIds : c \in (IF k = 1 THEN components ELSE components2)}
HoldersOf(n) == {c \in Components : n \in commands[c]}

\* ------------------------------------------------------------ properties
Range(q) == {q[i] : i \in 1..Len(q)}

\* The outcomes a finished message event has had.
MsgOutcomes ==
    {o \in {"executed", "not_found", "ignored"} :
        \/ o = "executed" /\ msg.executed # <<>>
        \/ o = "not_found" /\ msg.notFound > 0
        \/ o = "ignored" /\ msg.checkFailed}

\* Nothing of the interaction is left to run.
IaQuiescent ==
    /\ ia.pc \in {"done", "await_future"}
    /\ ia.timer # "pending"
    /\ ia.respondTask # "pending"
    /\ ia.dispatchTask # "pending"

\* The CommandError message has reached the user.
IaErrorDelivered == ia.initial = <<ia.error>> \/ ia.error \in Range(ia.edits)

\* C1: a message event that reached dispatch (its prefix matched) ends with
\* exactly one of: a command executed, MESSAGE_COMMAND_NOT_FOUND dispatched,
\* ignored because a global check failed; and the callback is not dispatched
\* for an event on which a component reported a command found.
C1_ExactlyOneOutcome ==
    (msg.pc = "done" /\ msg.prefix # NoPrefix) =>
        /\ Cardinality(MsgOutcomes) = 1
        /\ (msg.found # {} => msg.notFound = 0)

\* C2: when a component raises CommandError(m), on each entry point, m is
\* sent as the response (on the request entry point by the task created for
\* it), no further component is asked and no *_COMMAND_NOT_FOUND callback
\* is dispatched: the handler is in the respond call, or has returned
\* with m sent.
C2_CommandErrorResponds ==
    /\ msg.exit = "error" =>
          /\ \/ msg.pc = "respond" /\ msg.responses = <<>>
             \/ msg.pc = "done" /\ msg.responses = <<msg.error>>
          /\ msg.error \in ErrorMessages
          /\ msg.notFound = 0
          /\ ~msg.askedAfterError
    /\ ia.exit = "error" =>
          /\ ia.error \in ErrorMessages
          /\ ia.notFound = 0
          /\ ia.dispatchTask = "none"
          /\ ia.log = <<>>
          /\ ~ia.askedAfterError
          /\ ia.pc \in {"respond", "done", "await_future"}
          /\ IF ia.entry = "event"
             THEN ia.pc = "respond" <=> ~IaErrorDelivered
             ELSE ia.respondTask = "pending" \/ IaErrorDelivered

C2_Witness ==
    /\ ia.exit = "error" /\ ia.entry = "request" /\ ia.pc = "done"
    /\ ia.respondTask = "done" /\ IaErrorDelivered

\* C3: a HaltExecution raised during component execution is
\* swallowed and nothing else happens: no response, no *_COMMAND_NOT_FOUND
\* dispatch, no not-found response marked.
C3_HaltSilent ==
    /\ msg.exit = "halt" => msg.notFound = 0 /\ msg.responses = <<>>
    /\ ia.exit = "halt" =>
          /\ ia.notFound = 0
          /\ ia.dispatchTask = "none"
          /\ "mark" \notin Range(ia.log)

\* C4: content that starts with no prefix of the getter and no
\* static prefix ends the dispatch with MESSAGE_COMMAND_NOT_FOUND
\* dispatched, no response, and no check or component consulted.
C4_NoPrefixNotFound ==
    (msg.pc = "done" /\ msg.content # NoContent /\ ~msg.prefixable) =>
        /\ msg.notFound = 1
        /\ msg.responses = <<>> /\ ~msg.checked /\ msg.tried = {}

\* C5: when a prefix matched and the global check gate failed, the event is
\* ignored: no component is asked to execute, nothing is sent and
\* MESSAGE_COMMAND_NOT_FOUND is not dispatched.
C5_FailedCheckIgnored ==
    msg.checkFailed =>
        /\ msg.pc = "done" /\ msg.prefix # NoPrefix
        /\ msg.tried = {} /\ msg.executed = <<>>
        /\ msg.responses = <<>>
        /\ msg.notFound = 0

C5_Witness ==
    /\ msg.checkFailed /\ msg.pc = "done"
    /\ \E c \in components : started[c] /\ CommandMatches(msg.content, <<"p">>)

\* C6: for one event at most one component executes a command, and no
\* component is asked to execute after one reported a command found.
C6_FirstFoundStops ==
    /\ Cardinality(msg.found) <= 1 /\ Len(msg.executed) <= 1
    /\ ~msg.askedAfterFound
    /\ Cardinality(ia.found) <= 1 /\ Len(ia.executed) <= 1
    /\ ~ia.askedAfterFound

C6_Witness ==
    /\ msg.pc = "done" /\ msg.found # {}
    /\ \E d \in components \ msg.tried : started[d]

\* C7: when the prefix matched, the checks passed and every component's
\* execute returned false, MESSAGE_COMMAND_NOT_FOUND is dispatched exactly
\* once and nothing is sent.
C7_ExhaustedNotFound ==
    msg.exit = "exhausted" =>
        /\ msg.checked /\ ~msg.checkFailed /\ msg.tried = components
        /\ msg.executed = <<>> /\ msg.responses = <<>>
        /\ \/ msg.pc = "after_loop" /\ msg.notFound = 0
           \/ msg.pc = "done" /\ msg.notFound = 1

C7_Witness ==
    /\ msg.pc = "done" /\ msg.exit = "exhausted"
    /\ Cardinality(msg.tried) = 2 /\ \E c \in msg.tried : started[c]

\* C8: on_interaction_create_request resolves its response future exactly
\* once on every exit path, whatever auto-defer and the not-found message
\* are: never twice, and once nothing of the request is left to run the
\* future has its result.
C8_FutureResolvedOnce ==
    /\ ia.resolved <= 1
    /\ (ia.entry = "request" /\ IaQuiescent) => ia.resolved = 1

\* C9: at most one initial response per interaction, and on every exit of
\* the two interaction entry points that produced a real response the
\* auto-defer timer has been cancelled (it is no longer armed).
C9_TimerCancelledAfterResponse ==
    /\ Len(ia.initial) <= 1
    /\ (ia.pc = "done" /\ ia.initial # <<>> /\ ia.initial # <<"deferred">>)
          => ia.timer # "pending"

\* C10: when no component matches an interaction, on either entry point,
\* the client dispatches SLASH_COMMAND_NOT_FOUND, then marks the not-found
\* response, then cancels the deferral timer.
C10_NotFoundOrder ==
    (ia.exit = "exhausted" /\ IaQuiescent) =>
        ia.log = <<"dispatch", "mark", "cancel">>

\* C11: Client.open() on a client that is already alive raises and changes
\* nothing: is_alive stays true, neither STARTING nor STARTED is
\* dispatched, and no listener is subscribed or set again.
C11_OpenWhenAliveRefused ==
    (call.op = "open" /\ call.pre.isAlive) =>
        /\ call.pc = "done" /\ call.result = "raised"
        /\ call.log = <<>>
        /\ gather = NoGather
        /\ isAlive
        /\ prefixes = call.pre.prefixes
        /\ subscriptions = call.pre.subscriptions
        /\ serverListener = call.pre.serverListener

\* An open() was refused on a client whose listeners an earlier open()
\* registered.
C11_Witness ==
    /\ call.op = "open" /\ call.pre.isAlive /\ call.result = "raised"
    /\ subscriptions["InteractionCreateEvent"] = 1
    /\ serverListener = "on_interaction_create_request"

\* C12: Client.close() raises whenever the client is not alive, and a
\* close() that returned leaves is_alive false (so that a second close()
\* raises and dispatches neither CLOSING nor CLOSED).
C12_CloseLeavesNotAlive ==
    /\ (call.op = "close" /\ ~call.pre.isAlive) =>
           call.result = "raised" /\ call.log = <<>>
    /\ (call.op = "close" /\ call.result = "returned") => ~isAlive

\* C13: when a STARTING callback fails during Client.open(), open raises
\* and startup is aborted: is_alive stays false, no mention prefix is
\* added, no listener is registered and STARTED is not dispatched.
C13_StartingFailureAborts ==
    (call.op = "open" /\ gather.outcome = "raised") =>
        /\ call.pc \in {"starting", "done"}
        /\ call.pc = "done" => call.result = "raised"
        /\ call.log = <<STARTING>>
        /\ ~isAlive
        /\ prefixes = call.pre.prefixes
        /\ prefixes \cap MentionPrefixes = {}
        /\ subscriptions = NoSubscriptions
        /\ serverListener = "None"
        /\ startedTask = NoGather

\* open() raised because a STARTING callback failed, on a client that
\* would have fetched its mention prefixes and registered every listener.
C13_Witness ==
    /\ call.op = "open" /\ call.pc = "done" /\ call.result = "raised"
    /\ gather.outcome = "raised"
    /\ grabMentionPrefix /\ events /\ server /\ call.listener

\* C14: after Client.close() has returned no listener that open()
\* registered is left: the message-create listener, the
\* interaction-create listener and the interaction server's listener are
\* removed, whatever the client was built with and whatever the accepts
\* mode is by then; CLOSING is dispatched before any unsubscription and
\* CLOSED after all of them.
C14_CloseRemovesListeners ==
    (call.op = "close" /\ call.listener /\ call.result = "returned") =>
        /\ subscriptions = NoSubscriptions
        /\ serverListener = "None"
        /\ Head(call.log) = CLOSING
        /\ call.log[Len(call.log)] = CLOSED
        /\ \A i \in 2..(Len(call.log) - 1) :
               call.log[i] \notin {CLOSING, CLOSED}

\* C15: Client.open() does not wait for the STARTED callbacks: the STARTED
\* dispatch is a task created once is_alive is true and the listeners are
\* registered, it does not run before open() returns, and open() has
\* returned whatever the STARTED callbacks do.
C15_StartedNotAwaited ==
    /\ (call.op = "open" /\ ~call.pre.isAlive /\ call.pc # "done") =>
           startedTask = NoGather
    /\ (call.op = "open" /\ ~call.pre.isAlive /\ startedTask # NoGather) =>
           /\ call.result = "returned"
           /\ call.log[Len(call.log)] = "create_task started"
           /\ isAlive
           /\ (call.listener /\ events) =>
                  subscriptions["InteractionCreateEvent"] > 0
           /\ server => serverListener = "on_interaction_create_request"

\* open() has returned, and a STARTED callback has failed while another
\* open() call could not have been what started it.
C15_Witness ==
    /\ call.op = "open" /\ ~call.pre.isAlive /\ call.result = "returned"
    /\ startedTask.outcome = "raised"
    /\ events /\ server

\* Two event names are equal ignoring case.
SameName(a, b) == Lower(a) = Lower(b)

\* C16: the callback registry is keyed by the event name ignoring case: a
\* callback added under one name is returned by get_client_callbacks
\* under every case variant of it, a dispatch under a case variant runs
\* one task for each such callback, a removal under a case variant removes
\* it for all of them, and adding it again under a case variant leaves
\* one registration.
C16_CaseInsensitiveRegistry ==
    [][\A cb \in CallbackPool :
         /\ \A n \in RegisterNames :
                AddClientCallback(n, cb) =>
                    /\ \A m \in DispatchNames :
                           SameName(n, m) => cb \in GetClientCallbacks(m)'
                    /\ (\E m \in DispatchNames :
                            SameName(n, m) /\ cb \in GetClientCallbacks(m)) =>
                           clientCallbacks' = clientCallbacks
         /\ \A m \in DispatchNames :
                RemoveClientCallback(m, cb) =>
                    \A n \in RegisterNames \cup DispatchNames :
                        SameName(n, m) => cb \notin GetClientCallbacks(n)'
         /\ \A m \in DispatchNames, sup \in BOOLEAN :
                DispatchClientCallback(m, sup) =>
                    \A n \in RegisterNames :
                        SameName(n, m) =>
                            DOMAIN gather'.tasks = GetClientCallbacks(n)
      ]_vars

\* A dispatch under the lower-case name has run both callbacks, which
\* were registered under its upper-case variants.
C16_Witness ==
    /\ call.op = "dispatch" /\ call.log = << <<"o", "n">> >>
    /\ call.result = "returned"
    /\ DOMAIN gather.tasks = CallbackPool
    /\ \A cb \in CallbackPool : gather.tasks[cb] = "returned"

\* C17: with suppress_exceptions true, dispatch_client_callback never
\* raises because a callback failed; the failure is logged, and every
\* callback registered for the name has been invoked and has finished
\* when the dispatch returns.
C17_SuppressedNeverRaises ==
    (call.op = "dispatch" /\ gather.suppress) =>
        /\ call.result # "raised"
        /\ gather.outcome # "raised"
        /\ \A cb \in DOMAIN gather.tasks : gather.tasks[cb] # "raised"
        /\ call.result = "returned" =>
               \A cb \in DOMAIN gather.tasks :
                   gather.tasks[cb] \in {"returned", "logged"}

\* A suppressing dispatch returned after one callback failed and another
\* returned.
C17_Witness ==
    /\ call.op = "dispatch" /\ gather.suppress /\ call.result = "returned"
    /\ \E cb \in DOMAIN gather.tasks : gather.tasks[cb] = "logged"
    /\ \E cb \in DOMAIN gather.tasks : gather.tasks[cb] = "returned"

\* C18: with suppress_exceptions false, every callback registered for the
\* name has run to completion or failure when dispatch_client_callback
\* returns or raises, and none is cancelled.
C18_AllAwaitedBeforeRaise ==
    (call.op = "dispatch" /\ ~gather.suppress /\ call.pc = "done") =>
        \A cb \in DOMAIN gather.tasks :
            gather.tasks[cb] \in {"returned", "raised"}

\* C19: Component.execute on a component that is not started returns
\* false without evaluating a component check, without asking a command,
\* and without changing the context or the hooks it was given.
C19_NotStartedDoesNothing ==
    (execution.component \in Components /\ ~execution.started) =>
        /\ execution.r.ret = "false"
        /\ execution.r.checked = {} /\ execution.r.consulted = {}
        /\ ~execution.r.invoked
        /\ execution.r.ctx = execution.ctx
        /\ execution.r.hooks = execution.hooks
        /\ execution.r.used = NoHooks

\* A component that is not started, has a check and hooks of its own, was
\* executed with a content naming its command and a non-empty hooks set.
C19_Witness ==
    /\ execution.component \in Components
    /\ ~execution.started
    /\ compChecks[execution.component] # {}
    /\ ComponentHooks(execution.component) # "None"
    /\ execution.ctx.content = <<"p">>
    /\ execution.hooks.set # {}
    /\ execution.r.ret = "false"

\* C20: Component.check_context yields candidates only if all of the
\* component's checks pass: when one fails no command is asked, no
\* candidate is produced and execute returns false; when it asks a
\* command, every check has been evaluated and has passed.
C20_FailedComponentCheckGates ==
    /\ (execution.started /\ execution.r.consulted # {}) =>
           /\ execution.r.checked = DOMAIN execution.results
           /\ \A k \in DOMAIN execution.results : execution.results[k]
    /\ (execution.started
        /\ \E k \in DOMAIN execution.results : ~execution.results[k]) =>
           /\ execution.r.checked = DOMAIN execution.results
           /\ execution.r.consulted = {}
           /\ ~execution.r.invoked
           /\ execution.r.ret = "false"
           /\ execution.r.ctx = execution.ctx

\* A started component whose check failed was executed with a content
\* naming its command, and every check of it was evaluated.
C20_Witness ==
    /\ execution.component \in Components
    /\ execution.started
    /\ \E k \in DOMAIN execution.results : ~execution.results[k]
    /\ execution.ctx.content = <<"p">>
    /\ execution.r.checked = compChecks[execution.component]
    /\ execution.r.ret = "false"

\* C21: Component.execute on a started component returns true if and only
\* if a command matched and was invoked, also when the invocation raised a
\* CommandError; it returns false only when no command matched.
C21_TrueIffInvoked ==
    (execution.started /\ execution.r.pc = "done") =>
        /\ (execution.r.invoked /\ execution.outcome # "halt") =>
               execution.r.ret = "true"
        /\ ~execution.r.invoked => execution.r.ret = "false"

\* C21, amended: Component.execute on a started component returns true if
\* and only if a command matched, was invoked and returned; a
\* CommandError (or HaltExecution) its invocation raises is raised out of
\* Component.execute; it returns false exactly when no command matched or
\* a component check failed.
C21_TrueIffInvokedAndReturned ==
    (execution.started /\ execution.r.pc = "done") =>
        /\ execution.r.invoked <=>
               /\ \A k \in DOMAIN execution.results : execution.results[k]
               /\ \E n \in commands[execution.component] :
                      CommandMatches(execution.ctx.content, n)
        /\ execution.r.ret = "false" <=> ~execution.r.invoked
        /\ execution.r.ret = "true" <=>
               execution.r.invoked /\ execution.outcome \in {"respond", "silent"}
        /\ execution.r.ret = "err" <=>
               execution.r.invoked /\ execution.outcome \in ErrorMessages
        /\ execution.r.ret = "err" => execution.r.error = execution.outcome
        /\ execution.r.ret = "halt" <=>
               execution.r.invoked /\ execution.outcome = "halt"

\* A started component invoked a command that raised a CommandError.
C21_Witness ==
    /\ execution.started /\ execution.r.invoked /\ execution.r.pc = "done"
    /\ execution.outcome \in ErrorMessages
    /\ execution.r.ret = "err"

\* C22: over any sequence of add_listener, remove_listener, bind_client,
\* open and close, no listener of a component that is not started is
\* subscribed to a client's event dispatcher.
C22_SubscribedOnlyWhileStarted ==
    \A c \in Components :
        ~started[c] => \A l \in listeners[c] : SubscribedTo(c, l) = {}

\* C23: over any sequence of add_component and remove_component on
\* several clients, a component is in at most one client's component set,
\* and its bound client is the one client whose set contains it.
C23_OneOwningClient ==
    \A c \in Components :
        /\ Cardinality(OwnersOf(c)) <= 1
        /\ \A k \in ClientIds : boundClient[c] = k <=> OwnersOf(c) = {k}

\* C24: over any sequence of add_command and remove_command on several
\* components, a command is in at most one component's command set, the
\* component it is bound to is one that contains it, and a command that
\* no component contains is bound to none.
C24_OneOwningComponent ==
    \A n \in CommandPool :
        /\ Cardinality(HoldersOf(n)) <= 1
        /\ boundComponent[n] # 0 => boundComponent[n] \in HoldersOf(n)

\* C25: when add_component or remove_component runs at a suspension point
\* of an in-flight message or interaction dispatch, the dispatch does not
\* raise because of it: it ends as it can end on an unchanged registry.
C25_DispatchNeverRaises ==
    /\ msg.pc = "done" =>
          msg.exit \in {"none", "break", "halt", "error", "exhausted"}
    /\ ia.pc = "done" =>
          ia.exit \in {"none", "found", "halt", "error", "exhausted"}

\* C26: when two message events are dispatched concurrently against a
\* registry that is not changed, each event ends, under every
\* interleaving, as it can end when it is dispatched alone: the command
\* executed, the content, triggering name and prefix on its context, the
\* hooks passed to the command, and the response or not-found callback.
C26_ConcurrentAsAlone ==
    \A i \in Pipes :
        pipes[i].m.pc = "done" =>
            MsgOutcome(PipeView(i))
                \in AloneOutcomes(pipes[i].event, pipes[i].got)

\* Two events were handled, each took a step while the other was
\* suspended in the command it had called, and each had a command
\* executed.
C26_Witness ==
    /\ \A i \in Pipes : /\ pipes[i].m.pc = "done"
                        /\ pipes[i].overlapped
                        /\ pipes[i].m.executed # <<>>
    /\ pipes[1].event # pipes[2].event
    /\ pipes[1].m.executed # pipes[2].m.executed

\* C27: for registered prefixes P and a content that starts with some p
\* of P, dispatch records a prefix p the content starts with as the
\* triggering prefix and strips exactly that p, and the whitespace that
\* follows it, before component matching; also when one registered prefix
\* is the beginning of another and when a prefix begins with whitespace.
C27_StripsMatchedPrefix ==
    Ev.m.pc = "check" =>
        /\ StartsWith(Ev.event, Ev.m.prefix)
        /\ Ev.m.content = LStrip(Drop(Ev.event, Len(Ev.m.prefix)))

\* C28: with a prefix getter configured, _check_prefix selects the first
\* of the returned prefixes the content starts with; the static prefixes
\* are consulted only when none of the getter's matches, and the result
\* is None only when neither source matches.  The static prefixes are
\* those the client has when the getter returns.
C28_GetterFirstThenStatic ==
    (Ev.getterCalled /\ Ev.m.pc \notin {"idle", "getter"}) =>
        LET hits == GetterHits(Ev.event, Ev.got)
            static == {p \in prefixes : StartsWith(Ev.event, p)}
        IN  /\ hits # {} =>
                \E i \in hits : /\ Ev.m.prefix = Ev.got[i]
                                /\ \A j \in 1..(i - 1) : j \notin hits
            /\ (hits = {} /\ static # {}) => Ev.m.prefix \in static
            /\ Ev.m.prefix = NoPrefix <=> (hits = {} /\ static = {})

\* The getter returned two prefixes the content starts with and a static
\* prefix matches too: the first returned one was selected.
C28_Witness ==
    /\ Ev.getterCalled /\ Ev.m.pc = "check"
    /\ Cardinality(GetterHits(Ev.event, Ev.got)) = 2
    /\ Ev.got[1] # Ev.got[2]
    /\ Ev.m.prefix = Ev.got[1]
    /\ \E p \in prefixes : p # Ev.got[1] /\ StartsWith(Ev.event, p)

\* C29: a message event whose content is absent or empty is rejected at
\* once, for every prefix configuration: the prefix getter is not called,
\* no check and no component is consulted, no lifecycle callback is
\* dispatched and no response is sent.
C29_EmptyContentRejected ==
    (Ev.m.pc # "idle" /\ Ev.event \in {NoContent, <<>>}) =>
        /\ Ev.m.pc = "done"
        /\ ~Ev.getterCalled
        /\ ~Ev.m.checked
        /\ Ev.m.tried = {}
        /\ Ev.m.notFound = 0
        /\ Ev.m.responses = <<>>

\* C30: when Component.execute finds a matching command it strips exactly
\* the matched trigger name, and the whitespace that follows it, from the
\* front of ctx.content, sets ctx.triggering_name and ctx.command, adds
\* the component's own hooks to the hooks passed down, and calls the
\* command's execute with that context and those hooks; only the first
\* candidate check_context yields is executed.
C30_ExecutePreparesContext ==
    execution.r.invoked =>
        LET n == execution.r.ctx.command
            own == ComponentHooks(execution.component)
        IN  /\ n \in execution.candidates
            /\ execution.r.ctx.triggering_name = n
            /\ StartsWith(execution.ctx.content, n)
            /\ execution.r.ctx.content =
                   LStrip(Drop(execution.ctx.content, Len(n)))
            /\ own = "None" => execution.r.used = execution.hooks
            /\ own # "None" =>
                   /\ execution.r.used.given
                   /\ execution.r.used.set = execution.hooks.set \cup {own}

\* A component with hooks of its own was handed a non-empty hooks set and
\* a content two of its commands match, with whitespace after the name;
\* one of the two was executed.
C30_Witness ==
    /\ execution.r.invoked
    /\ Cardinality(execution.candidates) = 2
    /\ ComponentHooks(execution.component) # "None"
    /\ execution.hooks.set # {}
    /\ execution.ctx.content = <<"p", " ", "p">>
    /\ execution.r.ctx.command = <<"p">>
    /\ execution.r.ctx.content = <<"p">>

\* C31: the mention-prefix acquisition of Client.open() makes at most
\* max_retries + 1 = 5 fetch_my_user calls under any sequence of rate
\* limits and server errors; then open() either has the user and has
\* added the two mention prefixes or raises the last error; a rate limit
\* with retry_after > 30 is raised at once, with no further attempt.
C31_FetchBudget ==
    call.op = "open" =>
        /\ call.fetches <= MaxRetries + 1
        /\ call.lastFetch = "retry_late" =>
               call.pc = "done" /\ call.result = "raised"
        /\ (call.pc = "fetch" /\ call.fetches > 0) =>
               call.lastFetch \in {"retry_soon", "server_error"}
        /\ (call.pc = "done" /\ call.fetches > 0) =>
               /\ call.result = "returned" <=> call.lastFetch = "user"
               /\ call.result = "returned" =>
                      MentionPrefixes \subseteq prefixes /\ ~grabMentionPrefix
               /\ (call.result = "raised" /\ call.lastFetch # "retry_late") =>
                      call.fetches = MaxRetries + 1

\* The fifth fetch_my_user call, made after four failed ones, returned the
\* user.
C31_Witness ==
    /\ call.op = "open" /\ call.pc = "done" /\ call.result = "returned"
    /\ call.fetches = MaxRetries + 1
    /\ call.lastFetch = "user"

\* C32: Client.load_modules, given modules that are import names or paths
\* to valid source files, calls every as_loader callback of every module
\* exactly once with the client, raises no error and returns the client.
C32_LoadsEveryModule ==
    (load.result # "none"
       /\ \A i \in 1..Len(load.modules) :
              load.modules[i].kind \in {"name", "path"}) =>
        /\ load.result = "returned"
        /\ \A i \in 1..Len(load.modules), j \in 1..Len(LoaderNames) :
               TimesInvoked(i, LoaderNames[j]) =
                   (IF j \in load.modules[i].loaders THEN 1 ELSE 0)

\* C33: when Client.open() raises after the STARTING callbacks succeeded,
\* because the bot's user could not be fetched, the client is left not
\* alive: is_alive is false, no listener was subscribed or set, and a
\* later open() is not refused as already alive.
C33_FailedFetchLeavesNotAlive ==
    (call.op = "open" /\ call.pc = "done" /\ call.result = "raised"
       /\ call.fetches > 0) =>
        /\ ~isAlive
        /\ ~OpenRefused
        /\ subscriptions = call.pre.subscriptions
        /\ serverListener = call.pre.serverListener

\* C34: a Client can be started again: after an open() that returned and
\* a close() that returned, the next open() returns too (it is not
\* refused as already alive).
C34_ClientRestarts ==
    (history = <<<<"open", "returned">>, <<"close", "returned">>>>
       /\ call.op = "open" /\ call.pc = "done") =>
        call.result = "returned"

\* C35: when Component.open() completes on a component that is bound to
\* a client, every listener of the component is subscribed to the
\* client's dispatcher, a listener added while the component was not
\* started included.
C35_OpenSubscribesEveryListener ==
    [][\A c \in Components :
          (ComponentOpen(c) /\ boundClient[c] # 0) =>
              \A l \in listeners[c] : dispatcher'[boundClient[c]][c][l] > 0]_vars

\* C36: over any sequence of add_component, bind_client, add_listener,
\* remove_listener, open and close, no listener is subscribed to the same
\* dispatcher more than once.
C36_SubscribedAtMostOnce ==
    \A k \in ClientIds, c \in Components, l \in ListenerPool :
        dispatcher[k][c][l] <= 1

\* C37: Client.set_human_only(False) raises no error; on a client without
\* the human-only check it leaves the checks as they were, and after it
\* is_human_only is false.
C37_HumanOnlyOffNeverRaises ==
    (admin.op = "set_human_only" /\ ~admin.value) =>
        /\ admin.result = "returned"
        /\ HumanCheck \notin admin.pre.checks => checks = admin.pre.checks
        /\ ~IsHumanOnly

\* C38: Client.remove_component with a component that is not in the
\* client's set fails with an error and changes nothing: the set and the
\* component's binding are as before and unbind_client is not called;
\* with a component of the set, the component is out of the set by the
\* time it is unbound.
C38_RemoveAbsentChangesNothing ==
    admin.op = "remove_component" =>
        IF admin.component \in admin.pre.components
        THEN /\ admin.result = "returned"
             /\ admin.unbindCalled
             /\ admin.component \notin admin.atUnbind
             /\ components = admin.pre.components \ {admin.component}
             /\ boundClient[admin.component] = 0
        ELSE /\ admin.result = "raised"
             /\ ~admin.unbindCalled
             /\ components = admin.pre.components
             /\ boundClient = admin.pre.boundClient

\* remove_component failed for a component that another client holds and
\* is bound to.
C38_Witness ==
    /\ admin.op = "remove_component" /\ admin.result = "raised"
    /\ admin.component \notin components
    /\ admin.component \in components2
    /\ boundClient[admin.component] = 2

\* C39: when Component.execute returns false (the component is not
\* started, its checks failed or no command matched) the context's
\* content, triggering_name and command and the caller's set of hooks are
\* as they were, so the next component gets the same context and hooks; a
\* component adds its hooks only when it is about to execute a command.
C39_FalseLeavesContextAndHooks ==
    execution.component # 0 =>
        /\ execution.r.ret = "false" =>
               /\ execution.r.ctx = execution.ctx
               /\ execution.r.hooks = execution.hooks
               /\ execution.r.used = NoHooks
        /\ execution.r.hooks # execution.hooks => execution.r.invoked

\* A started component that has hooks of its own was given a non-empty
\* set of hooks and a content no command of it matches, and returned
\* false.
C39_Witness ==
    /\ execution.component # 0 /\ execution.started
    /\ ComponentHooks(execution.component) # "None"
    /\ execution.hooks.given /\ execution.hooks.set # {}
    /\ execution.ctx.content # <<>>
    /\ \A k \in DOMAIN execution.results : execution.results[k]
    /\ execution.r.ret = "false"

\* The global commands of the components of cs, each with the component
\* that holds it, and whether two of them have one name.
GlobalsOf(cs, slash) ==
    {g \in cs \X SlashNames :
        \E i \in 1..Len(slash[g[1]]) :
           slash[g[1]][i].name = g[2] /\ slash[g[1]][i].isGlobal}

NamesClash(globals) ==
    \E g, h \in globals : g # h /\ g[2] = h[2]

\* What a call of set_global_commands that is over has done with the
\* global commands it found: it raised RuntimeError before any REST call
\* and tracked nothing, or sent each of them once and set the tracked
\* command of each to the API's command of its name.
GlobalCommandsSet ==
    LET globals == GlobalsOf(admin.scanned, admin.slash)
    IN  IF NamesClash(globals)
        THEN /\ admin.result = "raised"
             /\ admin.error = "RuntimeError"
             /\ admin.restCalls = 0
             /\ admin.sent = <<>>
             /\ admin.tracked = {}
        ELSE /\ admin.result = "returned"
             /\ admin.restCalls = 1
             /\ Len(admin.sent) = Cardinality(globals)
             /\ {admin.sent[i] : i \in 1..Len(admin.sent)} =
                    {g[2] : g \in globals}
             /\ admin.tracked =
                    {<<g[1], g[2], TRUE, ApiCommand(g[2])>> : g \in globals}

\* C40: Client.set_global_commands raises RuntimeError whenever two global
\* slash commands of the client's components have the same name, and then
\* makes no set_application_commands call and sets no tracked command;
\* otherwise it sends exactly the global commands, each once, and sets
\* the tracked command of each to the API's command of the same name.
\* Commands that are not global are never sent, never tracked and never
\* conflict.
C40_GlobalCommandConflicts ==
    (admin.op = "set_global_commands" /\ admin.result # "none")
        => GlobalCommandsSet

\* The same of the calls whose second loop found the components the
\* first one had found.
GlobalCommandsSetUndisturbed ==
    (/\ admin.op = "set_global_commands"
     /\ admin.result # "none"
     /\ (admin.error = "RuntimeError" \/ admin.walked = admin.scanned))
        => GlobalCommandsSet

====
